---- MODULE Spec2Model ----
(***************************************************************************)
(* Gem Hunter: the CNF encoder (cnf_generator.py), the CNF-based solvers   *)
(* (solvers/bruteforce_solver.py, solvers/backtracking_solvers.py), the    *)
(* grid-based solvers and validator (solvers/classical_solvers.py,         *)
(* utils/benchmark.py).                                                    *)
(*                                                                         *)
(* A grid is a function row -> (col -> token), rows and columns counted    *)
(* from 0 as in the source.  Tokens are strings: the unknown token, the    *)
(* trap and gem tokens, and digit strings.                                 *)
(***************************************************************************)
EXTENDS Integers, Sequences, FiniteSets, TLC

\* ------------------------------------------------------------------------
\* Bounds of the model
\* ------------------------------------------------------------------------
\* grids have at most MaxCells cells (height * width <= MaxCells)
MaxCells == 9
\* a puzzle of the solver pipelines has at most MaxNumbers Number cells ...
MaxNumbers == 2
\* ... each with a value in 0..MaxValue
MaxValue == 3
\* the largest grid whose candidate solutions are all validated
MaxCandidateCells == 4
MaxSatCells == 4
MaxBruteCells == 6
\* the loaded maps of the cap check have at most this many cells, but for
\* one column of LongColumn cells under a Number cell
MaxCapCells == 4
LongColumn == 21

\* ------------------------------------------------------------------------
\* consts.py
\* ------------------------------------------------------------------------
EMPTY_CELL == "_"
TRAP_CELL == "T"
GEM_CELL == "G"
CNF_STARTING_VAR == 1
ZERO_VALUE == 0
ZERO_LENGTH == 0
\* the cap on the masks BruteForceSolver.solve checks; kept small so that the
\* grids of the model reach it
MAX_COMBINATION_COUNT == 64
\* Python's None, where a grid is expected
None == <<>>

\* ------------------------------------------------------------------------
\* Python built-ins used by the source
\* ------------------------------------------------------------------------
DigitTokens == <<"0", "1", "2", "3", "4", "5", "6", "7", "8", "9">>

\* str.isdigit() on a cell token
isdigit(s) == \E k \in 1..Len(DigitTokens) : DigitTokens[k] = s

\* int(cell) of a digit token
int(s) == (CHOOSE k \in 1..Len(DigitTokens) : DigitTokens[k] = s) - 1

\* str(n) of a small number
str(n) == ToString(n)

Range(s) == {s[k] : k \in 1..Len(s)}

abs(x) == IF x < 0 THEN -x ELSE x

\* list comparison a < b of Python: lexicographic
RECURSIVE ListLess(_, _)
ListLess(a, b) ==
    IF a = <<>> THEN b # <<>>
    ELSE IF b = <<>> THEN FALSE
    ELSE IF Head(a) # Head(b) THEN Head(a) < Head(b)
    ELSE ListLess(Tail(a), Tail(b))

\* itertools.combinations(s, k): the k-element subsequences of s, in
\* lexicographic order of positions
RECURSIVE combinations(_, _)
combinations(s, k) ==
    IF k = 0 THEN << <<>> >>
    ELSE IF Len(s) < k THEN <<>>
    ELSE LET with == combinations(Tail(s), k - 1)
             without == combinations(Tail(s), k)
         IN [i \in 1..Len(with) |-> <<Head(s)>> \o with[i]] \o without

\* ------------------------------------------------------------------------
\* CPython's set object: the order in which list(frozenset(keys)) yields the
\* keys.  A table of 8 slots, open addressing, grown to 32 slots when the
\* fifth key arrives; a key's first slot is its hash masked to the table
\* size.  Slot 0 of the model's table value means "unused" (0 is never a
\* literal).  Exact for keys in -32..31 and at most 18 keys.
\* ------------------------------------------------------------------------
PySet_MINSIZE == 8
LINEAR_PROBES == 9
PERTURB_SHIFT == 5

\* hash(int): the value itself, except hash(-1) = -2
hash(x) == IF x = -1 THEN -2 ELSE x

\* the low bits (under mask) of perturb after j right shifts by PERTURB_SHIFT;
\* perturb starts as the hash read as an unsigned 64-bit number
PerturbLow(h, j, mask) ==
    IF h >= 0 THEN 0
    ELSE IF j <= 11 THEN mask
    ELSE IF j = 12 THEN 15 % (mask + 1)
    ELSE 0

\* set_add_entry / set_insert_clean: probe from slot i (j shifts so far)
RECURSIVE set_probe(_, _, _, _, _)
set_probe(table, mask, key, i, j) ==
    LET probes == IF i + LINEAR_PROBES <= mask THEN LINEAR_PROBES ELSE 0
        hit == {s \in i..(i + probes) : table[s] = 0 \/ table[s] = key}
    IN IF hit # {}
       THEN CHOOSE s \in hit : \A t \in hit : s <= t
       ELSE set_probe(table, mask, key,
                      (i * 5 + 1 + PerturbLow(hash(key), j + 1, mask)) % (mask + 1),
                      j + 1)

set_insert(table, mask, key) ==
    [table EXCEPT ![set_probe(table, mask, key, hash(key) % (mask + 1), 0)] = key]

\* set_table_resize: reinsert the keys in slot order into a fresh table
RECURSIVE set_reinsert(_, _, _, _)
set_reinsert(old, oldmask, s, new) ==
    IF s > oldmask THEN new
    ELSE set_reinsert(old, oldmask, s + 1,
                      IF old[s] = 0 THEN new
                      ELSE set_insert(new, 4 * PySet_MINSIZE - 1, old[s]))

\* set_add_key for each key of the iterable, in order
RECURSIVE set_update(_, _, _)
set_update(table, mask, keys) ==
    IF keys = <<>> THEN table
    ELSE LET t1 == set_insert(table, mask, Head(keys))
             fill == Cardinality({s \in 0..mask : t1[s] # 0})
         IN IF t1 # table /\ fill * 5 >= mask * 3
            THEN set_update(set_reinsert(t1, mask, 0,
                                         [s \in 0..(4 * PySet_MINSIZE - 1) |-> 0]),
                            4 * PySet_MINSIZE - 1, Tail(keys))
            ELSE set_update(t1, mask, Tail(keys))

\* the keys of a table in slot order
table_keys(table, mask) ==
    LET slots == [k \in 1..(mask + 1) |-> table[k - 1]]
    IN SelectSeq(slots, LAMBDA key : key # 0)

\* list(frozenset(keys))
frozenset(keys) ==
    LET table == set_update([s \in 0..(PySet_MINSIZE - 1) |-> 0], PySet_MINSIZE - 1, keys)
    IN table_keys(table, Cardinality(DOMAIN table) - 1)

\* get_neighbors without the diagonal steps
get_neighbors_NoDiagonals(i, j, height, width) ==
    LET cand == [k \in 1..9 |-> <<i + ((k - 1) \div 3) - 1, j + ((k - 1) % 3) - 1>>]
    IN SelectSeq(cand, LAMBDA p : /\ (p[1] = i) # (p[2] = j)
                                  /\ 0 <= p[1] /\ p[1] < height
                                  /\ 0 <= p[2] /\ p[2] < width)

\* ------------------------------------------------------------------------
\* utils/solver_utils.py
\* ------------------------------------------------------------------------
\* get_neighbors(i, j, height, width): the in-bounds cells around (i, j), in
\* the order of the two nested loops over di and dj
get_neighbors(i, j, height, width) ==
    LET cand == [k \in 1..9 |-> <<i + ((k - 1) \div 3) - 1, j + ((k - 1) % 3) - 1>>]
    IN SelectSeq(cand, LAMBDA p : /\ p # <<i, j>>
                                  /\ 0 <= p[1] /\ p[1] < height
                                  /\ 0 <= p[2] /\ p[2] < width)

flatten(n, row, col) == row * n + col + CNF_STARTING_VAR

\* unflatten without the subtraction of the starting variable
unflatten_NoOffset(n, var) == <<var \div n, var % n>>

\* unflatten(n, var): the cell (row, col) of a variable
unflatten(n, var) ==
    LET v == var - CNF_STARTING_VAR
    IN <<v \div n, v % n>>

\* ------------------------------------------------------------------------
\* cnf_generator.py: MapToCNF
\* ------------------------------------------------------------------------
\* CellClauseKeys with the clauses that forbid more than n traps left out
CellClauseKeys_NoAtMost(grid, n, row, col) ==
    LET cell == grid[row][col]
        cell_var == flatten(n, row, col)
        cell_int == int(cell)
        neighbors == get_neighbors(row, col, n, n)
        unassigned_neighbors == SelectSeq(neighbors, LAMBDA p : grid[p[1]][p[2]] = EMPTY_CELL)
        neighbor_vars == [k \in 1..Len(unassigned_neighbors) |->
                              flatten(n, unassigned_neighbors[k][1], unassigned_neighbors[k][2])]
        m == Len(unassigned_neighbors)
        negate(comb) == [k \in 1..Len(comb) |-> -comb[k]]
        at_most == combinations(neighbor_vars, cell_int + 1)
        at_least == combinations(neighbor_vars, m - cell_int + 1)
    IN IF cell = EMPTY_CELL THEN <<>>
       ELSE << <<-cell_var>> >> \o
            (IF cell_int = ZERO_VALUE
               THEN [k \in 1..m |-> <<-neighbor_vars[k]>>]
             ELSE IF m = ZERO_LENGTH THEN <<>>
             ELSE IF m = cell_int
               THEN [k \in 1..m |-> <<neighbor_vars[k]>>]
             ELSE IF m > cell_int
               THEN <<neighbor_vars>> \o at_least
             ELSE <<>>)

\* CellClauseKeys with every neighbour taken for an unknown one
CellClauseKeys_AllNeighbors(grid, n, row, col) ==
    LET cell == grid[row][col]
        cell_var == flatten(n, row, col)
        cell_int == int(cell)
        neighbors == get_neighbors(row, col, n, n)
        unassigned_neighbors == neighbors
        neighbor_vars == [k \in 1..Len(unassigned_neighbors) |->
                              flatten(n, unassigned_neighbors[k][1], unassigned_neighbors[k][2])]
        m == Len(unassigned_neighbors)
        negate(comb) == [k \in 1..Len(comb) |-> -comb[k]]
        at_most == combinations(neighbor_vars, cell_int + 1)
        at_least == combinations(neighbor_vars, m - cell_int + 1)
    IN IF cell = EMPTY_CELL THEN <<>>
       ELSE << <<-cell_var>> >> \o
            (IF cell_int = ZERO_VALUE
               THEN [k \in 1..m |-> <<-neighbor_vars[k]>>]
             ELSE IF m = ZERO_LENGTH THEN <<>>
             ELSE IF m = cell_int
               THEN [k \in 1..m |-> <<neighbor_vars[k]>>]
             ELSE IF m > cell_int
               THEN <<neighbor_vars>>
                    \o [k \in 1..Len(at_most) |-> negate(at_most[k])]
                    \o at_least
             ELSE <<>>)

\* the key lists handed to frozenset() while cell (row, col) is visited, in
\* the order of the add() calls
CellClauseKeys(grid, n, row, col) ==
    LET cell == grid[row][col]
        cell_var == flatten(n, row, col)
        cell_int == int(cell)
        neighbors == get_neighbors(row, col, n, n)
        unassigned_neighbors == SelectSeq(neighbors, LAMBDA p : grid[p[1]][p[2]] = EMPTY_CELL)
        neighbor_vars == [k \in 1..Len(unassigned_neighbors) |->
                              flatten(n, unassigned_neighbors[k][1], unassigned_neighbors[k][2])]
        m == Len(unassigned_neighbors)
        negate(comb) == [k \in 1..Len(comb) |-> -comb[k]]
        at_most == combinations(neighbor_vars, cell_int + 1)
        at_least == combinations(neighbor_vars, m - cell_int + 1)
    IN IF cell = EMPTY_CELL THEN <<>>
       ELSE << <<-cell_var>> >> \o
            (IF cell_int = ZERO_VALUE
               THEN [k \in 1..m |-> <<-neighbor_vars[k]>>]
             ELSE IF m = ZERO_LENGTH THEN <<>>
             ELSE IF m = cell_int
               THEN [k \in 1..m |-> <<neighbor_vars[k]>>]
             ELSE IF m > cell_int
               THEN <<neighbor_vars>>
                    \o [k \in 1..Len(at_most) |-> negate(at_most[k])]
                    \o at_least
             ELSE <<>>)

\* the key lists of the add() calls of the two nested loops of convert_to_cnf
\* over range(self.n) x range(self.n), from cell number k on
RECURSIVE AddedKeys(_, _, _)
AddedKeys(grid, n, k) ==
    IF k >= n * n THEN <<>>
    ELSE CellClauseKeys(grid, n, k \div n, k % n) \o AddedKeys(grid, n, k + 1)

\* (mutant of unique_clauses_set: the clauses collected in a list, every
\* add() kept)
unique_clauses_list(grid, n) ==
    LET keys == AddedKeys(grid, n, 0)
    IN [i \in 1..Len(keys) |-> frozenset(keys[i])]

\* unique_clauses_set after the loops, listed in insertion order: add() keeps
\* the frozenset that came first among equal ones, and a clause is kept here
\* as the list that list(clause) yields
unique_clauses_set(grid, n) ==
    LET keys == AddedKeys(grid, n, 0)
        lits == [k \in 1..Len(keys) |-> Range(keys[k])]
        first == {k \in 1..Len(keys) : \A j \in 1..(k - 1) : lits[j] # lits[k]}
        before == [k \in first |-> Cardinality({j \in first : j < k})]
    IN [i \in 1..Cardinality(first) |->
            frozenset(keys[CHOOSE k \in first : before[k] = i - 1])]

\* self.grid[row] for a row of range(self.n) the grid does not have
ConvertRaisesIndexError(h, n) == \E row \in 0..(n - 1) : row >= h

\* The iteration order of unique_clauses_set (a set of frozensets) is not
\* fixed by the insertion order; the model lets the list comprehension of
\* line 65 see the set in any of these orders.
SetOrders == {"insertion", "reversed"}

Reverse(s) == [k \in 1..Len(s) |-> s[Len(s) + 1 - k]]

set_iter(unique, order) ==
    IF order = "insertion" THEN unique
    ELSE Reverse(unique)

\* (mutant of SortKeyLess: key=len, the literal lists not compared)
SortKeyLess_LengthOnly(a, b) == Len(a) < Len(b)

\* key=lambda x: (len(x), x), compared as Python compares tuples
SortKeyLess(a, b) ==
    \/ Len(a) < Len(b)
    \/ Len(a) = Len(b) /\ ListLess(a, b)

\* how many elements of the sorted list b come before x: those with a key
\* less than x's (strict), or not greater than x's (not strict); a binary
\* search between positions lo and hi
RECURSIVE CountBefore(_, _, _, _, _)
CountBefore(b, x, strict, lo, hi) ==
    IF lo > hi THEN lo - 1
    ELSE LET mid == (lo + hi) \div 2
             before == IF strict THEN SortKeyLess(b[mid], x) ELSE ~SortKeyLess(x, b[mid])
         IN IF before THEN CountBefore(b, x, strict, mid + 1, hi)
            ELSE CountBefore(b, x, strict, lo, mid - 1)

\* list.sort(key=...): a stable merge sort; of two elements with equal keys
\* the one of the left run stays in front
sort_merge(a, b) ==
    LET posA == [i \in 1..Len(a) |-> i + CountBefore(b, a[i], TRUE, 1, Len(b))]
        fromA == {posA[i] : i \in 1..Len(a)}
        rest == [j \in 1..Len(b) |-> j + CountBefore(a, b[j], FALSE, 1, Len(a))]
    IN [k \in 1..(Len(a) + Len(b)) |->
            IF k \in fromA
            THEN a[k - Cardinality({j \in 1..Len(b) : rest[j] < k})]
            ELSE b[k - Cardinality({i \in 1..Len(a) : posA[i] < k})]]

RECURSIVE list_sort(_)
list_sort(seq) ==
    IF Len(seq) <= 1 THEN seq
    ELSE LET half == Len(seq) \div 2
         IN sort_merge(list_sort(SubSeq(seq, 1, half)),
                       list_sort(SubSeq(seq, half + 1, Len(seq))))

\* convert_to_cnf of MapToCNF((grid, width, height)): self.n = width
convert_to_cnf(grid, n, order) ==
    list_sort(set_iter(unique_clauses_set(grid, n), order))

\* str.join
RECURSIVE join(_, _)
join(sep, strs) ==
    IF strs = <<>> THEN ""
    ELSE IF Len(strs) = 1 THEN strs[1]
    ELSE LET half == Len(strs) \div 2
         IN join(sep, SubSeq(strs, 1, half)) \o sep
            \o join(sep, SubSeq(strs, half + 1, Len(strs)))

\* the lines of to_dimacs, each as its blank-separated tokens: the header
\* "p cnf <max_var> <clauses>" and, per clause, map(str, clause) and "0"
dimacs_lines(n, cls) ==
    << <<"p", "cnf", str(n * n), str(Len(cls))>> >>
    \o [k \in 1..Len(cls) |-> [i \in 1..Len(cls[k]) |-> str(cls[k][i])] \o <<"0">>]

\* to_dimacs: the string written to the file and returned
to_dimacs(n, cls) ==
    LET lines == dimacs_lines(n, cls)
    IN join("\n", [k \in 1..Len(lines) |-> join(" ", lines[k])])

\* ------------------------------------------------------------------------
\* solvers/bruteforce_solver.py: BruteForceSolver (the CNF-based one)
\* ------------------------------------------------------------------------
\* check_solution(assignment): every clause has a literal the assignment
\* makes true
check_solution(cls, assignment) ==
    \A k \in 1..Len(cls) :
        \E i \in 1..Len(cls[k]) :
            LET literal == cls[k][i]
                var == abs(literal)
            IN \/ literal > 0 /\ assignment[var]
               \/ literal < 0 /\ ~assignment[var]

\* pysat.formula.CNF(from_file=...) as load_dimacs uses it: the decimal
\* tokens of the literals a file can hold, and the integer a token denotes
IntTokens == [v \in (0 - MaxCells)..MaxCells |-> str(v)]
parse_int(tok) == CHOOSE v \in DOMAIN IntTokens : IntTokens[v] = tok

\* load_dimacs(dimacs_file): the clauses of the file; the header and comment
\* lines are skipped, and the closing 0 of a clause line is dropped
load_dimacs(file) ==
    LET body == SelectSeq(file, LAMBDA line : line[1] # "p" /\ line[1] # "c")
    IN [k \in 1..Len(body) |->
            [i \in 1..(Len(body[k]) - 1) |-> parse_int(body[k][i])]]

\* `if not self.cnf`: whether the loaded formula object counts as true. A
\* formula that holds clauses does; for one without clauses the answer is the
\* formula class's own (pysat is not part of the repository), so both are kept
CnfTruthiness(cls) == IF Len(cls) = 0 THEN BOOLEAN ELSE {TRUE}

\* __init__: the unknown cells of the puzzle in row-major order
empty_cells(grid, h, w) ==
    LET all == [k \in 1..(h * w) |-> <<(k - 1) \div w, (k - 1) % w>>]
    IN SelectSeq(all, LAMBDA p : grid[p[1]][p[2]] = EMPTY_CELL)

\* a shallow copy, list(puzzle): a new outer list holding the puzzle's own rows
copy_rows_Shallow(grid) == DOMAIN grid

\* [row[:] for row in puzzle]: the rows of the copy that are the same list
\* objects as rows of the puzzle.  Every row is sliced into a new list: none
copy_rows(grid) == {r \in DOMAIN grid : FALSE}

\* what the caller's puzzle holds once a solver has left working in its
\* solution grid: a row shared with the solution grid shows what was written
written_back(grid, shared, working) ==
    [r \in DOMAIN grid |-> IF r \in shared THEN working[r] ELSE grid[r]]

SetCell(grid, row, col, value) == [grid EXCEPT ![row][col] = value]

Max(a, b) == IF a >= b THEN a ELSE b

\* the assignment solve builds for a mask: every variable False, then bit idx
\* of the mask for the idx-th unknown cell (True = trap)
mask_assignment(ec, h, w, mask) ==
    [v \in 1..(w * h) |->
        \E idx \in 0..(Len(ec) - 1) :
            /\ ec[idx + 1][1] * w + ec[idx + 1][2] + 1 = v
            /\ (mask \div (2 ^ idx)) % 2 = 1]

\* mask_grid writing the traps only
mask_grid_TrapsOnly(grid, ec, w, assignment) ==
    [r \in DOMAIN grid |->
        [c \in DOMAIN grid[r] |->
            IF grid[r][c] = EMPTY_CELL /\ assignment[r * w + c + 1]
            THEN TRAP_CELL
            ELSE grid[r][c]]]

\* the grid solve fills in from a satisfying assignment
mask_grid(grid, ec, w, assignment) ==
    [r \in DOMAIN grid |->
        [c \in DOMAIN grid[r] |->
            IF grid[r][c] = EMPTY_CELL
            THEN (IF assignment[r * w + c + 1] THEN TRAP_CELL ELSE GEM_CELL)
            ELSE grid[r][c]]]

\* how many masks the loop of solve checks when none satisfies: it leaves
\* after the mask that brings combinations_count to MAX_COMBINATION_COUNT
masks_checked(total) ==
    IF total <= MAX_COMBINATION_COUNT THEN total ELSE Max(1, MAX_COMBINATION_COUNT)

\* solve returning the last satisfying mask it would reach, not the first
bf_solve_LastMask(grid, h, w, cnf) ==
    LET ec == empty_cells(grid, h, w)
        total_combinations == 2 ^ Len(ec)
        checked == masks_checked(total_combinations)
        sat == {mask \in 0..(checked - 1) :
                    check_solution(cnf.clauses, mask_assignment(ec, h, w, mask))}
        last == CHOOSE mask \in sat : \A other \in sat : mask >= other
    IN IF ~cnf.truthy
         THEN [solution |-> None, success |-> FALSE, stop |-> "no_cnf", evaluated |-> 0]
       ELSE IF sat # {}
         THEN [solution |-> mask_grid(grid, ec, w, mask_assignment(ec, h, w, last)),
               success |-> TRUE, stop |-> "found", evaluated |-> last + 1]
       ELSE [solution |-> grid, success |-> FALSE,
             stop |-> IF checked < total_combinations THEN "cap" ELSE "exhausted",
             evaluated |-> checked]

\* BruteForceSolver.solve(): the returned (solution, found), and in stop why
\* the loop ended ("found", "cap": left by the break with masks untried,
\* "exhausted": every mask was checked, "no_cnf": the early return), and in
\* evaluated how many masks check_solution was called on
bf_solve(grid, h, w, cnf) ==
    LET ec == empty_cells(grid, h, w)
        total_combinations == 2 ^ Len(ec)
        checked == masks_checked(total_combinations)
        sat == {mask \in 0..(checked - 1) :
                    check_solution(cnf.clauses, mask_assignment(ec, h, w, mask))}
        first == CHOOSE mask \in sat : \A other \in sat : mask <= other
    IN IF ~cnf.truthy
         THEN [solution |-> None, success |-> FALSE, stop |-> "no_cnf", evaluated |-> 0]
       ELSE IF sat # {}
         THEN [solution |-> mask_grid(grid, ec, w, mask_assignment(ec, h, w, first)),
               success |-> TRUE, stop |-> "found", evaluated |-> first + 1]
       ELSE [solution |-> grid, success |-> FALSE,
             stop |-> IF checked < total_combinations THEN "cap" ELSE "exhausted",
             evaluated |-> checked]

\* ------------------------------------------------------------------------
\* solvers/backtracking_solvers.py: BacktrackingSolver (the CNF-based one)
\* ------------------------------------------------------------------------
\* is_consistent accepting every value
is_consistent_Always(cls, assignment, var, value) == TRUE

\* is_consistent(assignment, var, value): no clause that mentions var is left
\* without a true literal and without an unassigned one. The values of an
\* assignment are "None", "True" and "False"
is_consistent(cls, assignment, var, value) ==
    LET temp_assignment == [assignment EXCEPT ![var] = value]
    IN \A k \in 1..Len(cls) :
          (\E i \in 1..Len(cls[k]) : abs(cls[k][i]) = var) =>
              LET known == {i \in 1..Len(cls[k]) : abs(cls[k][i]) \in DOMAIN temp_assignment}
                  unassigned == \E i \in known : temp_assignment[abs(cls[k][i])] = "None"
                  satisfied == \E i \in known :
                                  \/ cls[k][i] > 0 /\ temp_assignment[abs(cls[k][i])] = "True"
                                  \/ cls[k][i] < 0 /\ temp_assignment[abs(cls[k][i])] = "False"
              IN satisfied \/ unassigned

\* backtrack_search(assignment, index): gem (False) first, then trap (True);
\* the assignment and the grid are handed on as the calls leave them
RECURSIVE backtrack_search(_, _, _, _, _, _)
backtrack_search(cls, ec, w, st, grid, index) ==
    IF index >= Len(ec)
      THEN [found |-> TRUE, assignment |-> st.assignment, grid |-> grid, tried |-> st.tried]
    ELSE LET row == ec[index + 1][1]
             col == ec[index + 1][2]
             var == row * w + col + 1
             gem_tried == Append(st.tried, <<row, col, GEM_CELL>>)
             gem == IF is_consistent(cls, st.assignment, var, "False")
                      THEN backtrack_search(cls, ec, w,
                                            [assignment |-> [st.assignment EXCEPT ![var] = "False"],
                                             tried |-> gem_tried],
                                            SetCell(grid, row, col, GEM_CELL), index + 1)
                    ELSE [found |-> FALSE, assignment |-> st.assignment, grid |-> grid,
                          tried |-> gem_tried]
             trap_tried == Append(gem.tried, <<row, col, TRAP_CELL>>)
             trap == IF is_consistent(cls, gem.assignment, var, "True")
                       THEN backtrack_search(cls, ec, w,
                                             [assignment |-> [gem.assignment EXCEPT ![var] = "True"],
                                              tried |-> trap_tried],
                                             SetCell(gem.grid, row, col, TRAP_CELL), index + 1)
                     ELSE [found |-> FALSE, assignment |-> gem.assignment, grid |-> gem.grid,
                           tried |-> trap_tried]
         IN IF gem.found THEN gem
            ELSE IF trap.found THEN trap
            ELSE [found |-> FALSE,
                  assignment |-> [trap.assignment EXCEPT ![var] = "None"],
                  grid |-> SetCell(trap.grid, row, col, EMPTY_CELL),
                  tried |-> trap.tried]

\* BacktrackingSolver.solve(): the returned (solution, found), and in tried
\* the calls of is_consistent the search made, in order
bt_solve(grid, h, w, cnf) ==
    LET ec == empty_cells(grid, h, w)
        search == backtrack_search(cnf.clauses, ec, w,
                                   [assignment |-> [v \in 1..(h * w) |-> "None"], tried |-> <<>>],
                                   grid, 0)
        filled == [r \in DOMAIN grid |->
                      [c \in DOMAIN grid[r] |->
                          IF search.grid[r][c] = EMPTY_CELL /\ grid[r][c] = EMPTY_CELL
                          THEN GEM_CELL ELSE search.grid[r][c]]]
    IN IF ~cnf.truthy THEN [solution |-> grid, success |-> FALSE, tried |-> <<>>]
       ELSE IF search.found THEN [solution |-> filled, success |-> TRUE, tried |-> search.tried]
       ELSE [solution |-> search.grid, success |-> FALSE, tried |-> search.tried]

\* ------------------------------------------------------------------------
\* solvers/classical_solvers.py: BruteForceSolver.is_valid_solution
\* ------------------------------------------------------------------------
\* is_valid_solution with the test for traps around a gem left out
is_valid_solution_NoTrapCheck(grid, h, w, solution_grid) ==
    LET neighbors(i, j) == get_neighbors(i, j, h, w)
        IsTrap(p) == solution_grid[p[1]][p[2]] = TRAP_CELL
        NonEmpty(p) == solution_grid[p[1]][p[2]] # EMPTY_CELL
        numbers_ok ==
            \A i \in 0..(h - 1), j \in 0..(w - 1) :
                isdigit(grid[i][j]) =>
                    Len(SelectSeq(neighbors(i, j), IsTrap)) = int(grid[i][j])
        gems_ok ==
            \A i \in 0..(h - 1), j \in 0..(w - 1) :
                solution_grid[i][j] = GEM_CELL =>
                    \E k \in 1..Len(neighbors(i, j)) : NonEmpty(neighbors(i, j)[k])
        unreachable_ok ==
            \A i \in 0..(h - 1), j \in 0..(w - 1) :
                LET all_neighbors_empty ==
                        \A k \in 1..Len(neighbors(i, j)) : ~NonEmpty(neighbors(i, j)[k])
                IN ~(all_neighbors_empty /\ solution_grid[i][j] # EMPTY_CELL)
    IN numbers_ok /\ gems_ok /\ unreachable_ok

is_valid_solution(grid, h, w, solution_grid) ==
    LET neighbors(i, j) == get_neighbors(i, j, h, w)
        IsTrap(p) == solution_grid[p[1]][p[2]] = TRAP_CELL
        NonEmpty(p) == solution_grid[p[1]][p[2]] # EMPTY_CELL
        numbers_ok ==
            \A i \in 0..(h - 1), j \in 0..(w - 1) :
                isdigit(grid[i][j]) =>
                    Len(SelectSeq(neighbors(i, j), IsTrap)) = int(grid[i][j])
        gems_ok ==
            \A i \in 0..(h - 1), j \in 0..(w - 1) :
                solution_grid[i][j] = GEM_CELL =>
                    /\ ~\E k \in 1..Len(neighbors(i, j)) : IsTrap(neighbors(i, j)[k])
                    /\ \E k \in 1..Len(neighbors(i, j)) : NonEmpty(neighbors(i, j)[k])
        unreachable_ok ==
            \A i \in 0..(h - 1), j \in 0..(w - 1) :
                LET all_neighbors_empty ==
                        \A k \in 1..Len(neighbors(i, j)) : ~NonEmpty(neighbors(i, j)[k])
                IN ~(all_neighbors_empty /\ solution_grid[i][j] # EMPTY_CELL)
    IN numbers_ok /\ gems_ok /\ unreachable_ok

\* ------------------------------------------------------------------------
\* solvers/classical_solvers.py: BruteForceSolver.solve
\* ------------------------------------------------------------------------
MAX_COMBINATIONS == 1000000

\* the grid of a trap mask: the unknown cells reset to empty, then the idx-th
\* unknown cell made a trap when bit idx of the mask is set
place_traps(grid, ec, trap_mask) ==
    LET masked == {idx \in 0..(Len(ec) - 1) : (trap_mask \div (2 ^ idx)) % 2 = 1}
        trapped == {ec[idx + 1] : idx \in masked}
    IN [r \in DOMAIN grid |->
          [c \in DOMAIN grid[r] |->
              IF grid[r][c] = EMPTY_CELL
              THEN (IF <<r, c>> \in trapped THEN TRAP_CELL ELSE EMPTY_CELL)
              ELSE grid[r][c]]]

\* the gem inference of solve: an empty cell with a Number neighbour and no
\* trap neighbour becomes a gem.  Neither test reads a gem, so the first
\* sweep of the while loop is the fixed point and the second changes nothing
bf_infer_gems(solution_grid, h, w) ==
    [i \in DOMAIN solution_grid |->
        [j \in DOMAIN solution_grid[i] |->
            IF solution_grid[i][j] # EMPTY_CELL
            THEN solution_grid[i][j]
            ELSE LET nbrs == get_neighbors(i, j, h, w)
                     has_trap ==
                         \E k \in 1..Len(nbrs) :
                             solution_grid[nbrs[k][1]][nbrs[k][2]] = TRAP_CELL
                     has_number ==
                         \E k \in 1..Len(nbrs) :
                             solution_grid[nbrs[k][1]][nbrs[k][2]]
                                 \notin {EMPTY_CELL, GEM_CELL, TRAP_CELL}
                 IN IF has_number /\ ~has_trap THEN GEM_CELL ELSE solution_grid[i][j]]]

\* the grid solve hands to is_valid_solution for a trap mask
bf_candidate(grid, h, w, trap_mask) ==
    bf_infer_gems(place_traps(grid, empty_cells(grid, h, w), trap_mask), h, w)

\* base ** exponent > limit, for a limit >= 1, without computing a power
\* beyond base * limit (Python's integers do not overflow)
RECURSIVE exceeds(_, _, _)
exceeds(base, exponent, limit) ==
    IF exponent = 0 THEN 1 > limit
    ELSE \/ exceeds(base, exponent - 1, limit)
         \/ base * (base ^ (exponent - 1)) > limit

Min(a, b) == IF a <= b THEN a ELSE b

\* the trap masks the for loop reaches before its break: range(2 ** n) up to
\* and including max_combinations, the break being on trap_mask > it
bf_masks_tried(num_empty_cells) ==
    LET max_combinations == IF exceeds(3, num_empty_cells, MAX_COMBINATIONS)
                            THEN MAX_COMBINATIONS
                            ELSE 3 ^ num_empty_cells
    IN 0..Min(2 ^ num_empty_cells - 1, max_combinations)

\* the masks among them whose grid is_valid_solution accepts
bf_valid_masks(grid, h, w) ==
    LET ec == empty_cells(grid, h, w)
    IN {trap_mask \in bf_masks_tried(Len(ec)) :
           is_valid_solution(grid, h, w, bf_infer_gems(place_traps(grid, ec, trap_mask), h, w))}

\* BruteForceSolver.solve(): the grid of the first mask accepted, or None; in
\* working what the local solution_grid holds at the return, and in evaluated
\* how many trap masks is_valid_solution was called on
classical_bf_solve(grid, h, w) ==
    LET valid == bf_valid_masks(grid, h, w)
        first == CHOOSE trap_mask \in valid : \A other \in valid : trap_mask <= other
        tried == bf_masks_tried(Len(empty_cells(grid, h, w)))
        last == Cardinality(tried) - 1
    IN IF valid # {}
       THEN [solution |-> bf_candidate(grid, h, w, first), success |-> TRUE,
             working |-> bf_candidate(grid, h, w, first), evaluated |-> first + 1]
       ELSE [solution |-> None, success |-> FALSE,
             working |-> bf_candidate(grid, h, w, last), evaluated |-> Cardinality(tried)]

\* ------------------------------------------------------------------------
\* utils/benchmark.py: verify_solution
\* ------------------------------------------------------------------------
\* the offsets (di, dj) of the two nested loops, the cell itself left out
Offsets == {d \in {-1, 0, 1} \X {-1, 0, 1} : d # <<0, 0>>}

\* verify_solution(puzzle, solution): the verdict (the message is dropped);
\* height and width are taken from the puzzle
verify_solution(grid, solution) ==
    LET h == Cardinality(DOMAIN grid)
        w == IF h > 0 THEN Cardinality(DOMAIN grid[0]) ELSE 0
        InGrid(ni, nj) == 0 <= ni /\ ni < h /\ 0 <= nj /\ nj < w
        trap_count(i, j) ==
            Cardinality({d \in Offsets :
                            /\ InGrid(i + d[1], j + d[2])
                            /\ solution[i + d[1]][j + d[2]] = TRAP_CELL})
        has_non_empty_neighbor(i, j) ==
            \E d \in Offsets :
                /\ InGrid(i + d[1], j + d[2])
                /\ solution[i + d[1]][j + d[2]] # EMPTY_CELL
    IN /\ \A i \in 0..(h - 1), j \in 0..(w - 1) :
              isdigit(grid[i][j]) => trap_count(i, j) = int(grid[i][j])
       /\ \A i \in 0..(h - 1), j \in 0..(w - 1) :
              solution[i][j] = GEM_CELL =>
                  /\ trap_count(i, j) = 0
                  /\ has_non_empty_neighbor(i, j)
       /\ \A i \in 0..(h - 1), j \in 0..(w - 1) :
              ~(~has_non_empty_neighbor(i, j) /\ solution[i][j] # EMPTY_CELL)

\* ------------------------------------------------------------------------
\* ui/solve.py: compare_solutions
\* ------------------------------------------------------------------------
\* compare_solutions(solutions): whether the grids of the solvers that
\* succeeded all equal the first of them, cell by cell
compare_solutions(solutions) ==
    LET valid_solutions == SelectSeq(solutions, LAMBDA data : data.success /\ data.solution # None)
        reference_solution == valid_solutions[1].solution
        is_same(solution) ==
            \A i \in 0..(Cardinality(DOMAIN reference_solution) - 1) :
                \A j \in 0..(Cardinality(DOMAIN reference_solution[0]) - 1) :
                    reference_solution[i][j] = solution[i][j]
    IN IF Len(valid_solutions) <= 1 THEN TRUE
       ELSE \A k \in 2..Len(valid_solutions) : is_same(valid_solutions[k].solution)

\* ------------------------------------------------------------------------
\* solvers/classical_solvers.py: BacktrackingSolver
\* ------------------------------------------------------------------------
\* check_number_constraint without the test current_trap_count <= target
check_number_constraint_NoUpperBound(grid, h, w, solution_grid, i, j) ==
    LET neighbors == get_neighbors(i, j, h, w)
        target_trap_count == int(grid[i][j])
        current_trap_count ==
            Len(SelectSeq(neighbors, LAMBDA p : solution_grid[p[1]][p[2]] = TRAP_CELL))
        potential_trap_count ==
            Len(SelectSeq(neighbors, LAMBDA p : solution_grid[p[1]][p[2]] = EMPTY_CELL))
    IN IF ~isdigit(grid[i][j]) THEN TRUE
       ELSE target_trap_count <= current_trap_count + potential_trap_count

\* check_number_constraint(i, j): the traps placed around a Number cell do not
\* exceed its value, and with the still empty neighbours can reach it
check_number_constraint(grid, h, w, solution_grid, i, j) ==
    LET neighbors == get_neighbors(i, j, h, w)
        target_trap_count == int(grid[i][j])
        current_trap_count ==
            Len(SelectSeq(neighbors, LAMBDA p : solution_grid[p[1]][p[2]] = TRAP_CELL))
        potential_trap_count ==
            Len(SelectSeq(neighbors, LAMBDA p : solution_grid[p[1]][p[2]] = EMPTY_CELL))
    IN IF ~isdigit(grid[i][j]) THEN TRUE
       ELSE /\ current_trap_count <= target_trap_count
            /\ target_trap_count <= current_trap_count + potential_trap_count

\* check_gem_constraint(i, j)
check_gem_constraint(h, w, solution_grid, i, j) ==
    LET neighbors == get_neighbors(i, j, h, w)
        at(k) == solution_grid[neighbors[k][1]][neighbors[k][2]]
        has_non_empty_neighbor == \E k \in 1..Len(neighbors) : at(k) # EMPTY_CELL
        all_neighbors_assigned == \A k \in 1..Len(neighbors) : at(k) # EMPTY_CELL
    IN IF solution_grid[i][j] # GEM_CELL THEN TRUE
       ELSE IF \E k \in 1..Len(neighbors) : at(k) = TRAP_CELL THEN FALSE
       ELSE ~(all_neighbors_assigned /\ ~has_non_empty_neighbor)

\* check_unreachable_constraint(i, j)
check_unreachable_constraint(h, w, solution_grid, i, j) ==
    LET neighbors == get_neighbors(i, j, h, w)
        at(k) == solution_grid[neighbors[k][1]][neighbors[k][2]]
        all_neighbors_empty == \A k \in 1..Len(neighbors) : at(k) = EMPTY_CELL
        all_neighbors_assigned == \A k \in 1..Len(neighbors) : at(k) # EMPTY_CELL
    IN IF all_neighbors_empty /\ all_neighbors_assigned
         THEN solution_grid[i][j] = EMPTY_CELL
       ELSE TRUE

\* is_consistent(i, j, value): the checks on the grid with value written to
\* (i, j); the grid itself is left as it was
classical_is_consistent(grid, h, w, solution_grid, i, j, value) ==
    LET temp == SetCell(solution_grid, i, j, value)
        neighbors == get_neighbors(i, j, h, w)
    IN /\ check_unreachable_constraint(h, w, temp, i, j)
       /\ \A k \in 1..Len(neighbors) :
             LET ni == neighbors[k][1]
                 nj == neighbors[k][2]
             IN /\ ~(isdigit(grid[ni][nj]) /\ ~check_number_constraint(grid, h, w, temp, ni, nj))
                /\ ~(temp[ni][nj] = GEM_CELL /\ ~check_gem_constraint(h, w, temp, ni, nj))
                /\ check_unreachable_constraint(h, w, temp, ni, nj)
       /\ ~(value = GEM_CELL /\ ~check_gem_constraint(h, w, temp, i, j))

\* one pass of infer_gems over the cells from number k on, in row-major
\* order; st holds solution_grid, unassigned_cells and the flag updated
RECURSIVE infer_gems_pass(_, _, _, _)
infer_gems_pass(h, w, st, k) ==
    IF k >= h * w THEN st
    ELSE LET i == k \div w
             j == k % w
             neighbors == get_neighbors(i, j, h, w)
             at(n) == st.grid[neighbors[n][1]][neighbors[n][2]]
             has_trap == \E n \in 1..Len(neighbors) : at(n) = TRAP_CELL
             has_number ==
                 \E n \in 1..Len(neighbors) :
                     /\ at(n) \notin {TRAP_CELL, EMPTY_CELL, GEM_CELL}
                     /\ \A m \in 1..(n - 1) : at(m) # TRAP_CELL
         IN IF st.grid[i][j] = EMPTY_CELL /\ has_number /\ ~has_trap
              THEN infer_gems_pass(h, w,
                       [grid |-> SetCell(st.grid, i, j, GEM_CELL),
                        unassigned |-> SelectSeq(st.unassigned, LAMBDA p : p # <<i, j>>),
                        updated |-> TRUE],
                       k + 1)
            ELSE infer_gems_pass(h, w, st, k + 1)

\* one pass of infer_gems, every cell computed from the grid before the pass:
\* a pass writes gems only, and none of its tests tells a gem from an empty
\* cell, so a cell's outcome does not depend on the cells visited before it
infer_gems_sweep(h, w, st) ==
    LET turned(i, j) ==
            LET neighbors == get_neighbors(i, j, h, w)
                at(n) == st.grid[neighbors[n][1]][neighbors[n][2]]
            IN /\ st.grid[i][j] = EMPTY_CELL
               /\ \A n \in 1..Len(neighbors) : at(n) # TRAP_CELL
               /\ \E n \in 1..Len(neighbors) : at(n) \notin {EMPTY_CELL, GEM_CELL}
    IN [grid |-> [i \in 0..(h - 1) |->
                    [j \in 0..(w - 1) |->
                        IF turned(i, j) THEN GEM_CELL ELSE st.grid[i][j]]],
        unassigned |-> SelectSeq(st.unassigned, LAMBDA p : ~turned(p[1], p[2])),
        updated |-> \E i \in 0..(h - 1), j \in 0..(w - 1) : turned(i, j)]

\* infer_gems(): passes until one changes nothing
RECURSIVE infer_gems(_, _, _, _)
infer_gems(h, w, solution_grid, unassigned_cells) ==
    LET st == infer_gems_pass(h, w, [grid |-> solution_grid,
                                     unassigned |-> unassigned_cells,
                                     updated |-> FALSE], 0)
    IN IF st.updated THEN infer_gems(h, w, st.grid, st.unassigned)
       ELSE [grid |-> st.grid, unassigned |-> st.unassigned]

\* the grid with the given cells emptied
RECURSIVE reset_cells(_, _, _)
reset_cells(solution_grid, cells, k) ==
    IF k > Len(cells) THEN solution_grid
    ELSE reset_cells(SetCell(solution_grid, cells[k][1], cells[k][2], EMPTY_CELL), cells, k + 1)

\* the element of a one-element set: binds the value of a call once
TheOne(S) == CHOOSE x \in S : TRUE

\* backtrack(index): TRAP, then EMPTY; st holds solution_grid and
\* unassigned_cells as the calls leave them, in tried the calls of
\* is_consistent made so far, in order, and in undos the grid before and
\* after every branch that failed
RECURSIVE backtrack(_, _, _, _, _)
backtrack(grid, h, w, st, index) ==
    IF index >= Len(st.unassigned)
      THEN [found |-> TRUE, grid |-> st.grid, unassigned |-> st.unassigned,
            tried |-> st.tried, undos |-> st.undos]
    ELSE LET i == st.unassigned[index + 1][1]
             j == st.unassigned[index + 1][2]
             reset(sub) == reset_cells(SetCell(sub.grid, i, j, EMPTY_CELL),
                                       sub.unassigned, index + 1)
             undone(before, sub) ==
                 IF sub.found THEN sub
                 ELSE [found |-> FALSE,
                       grid |-> reset(sub),
                       unassigned |-> sub.unassigned,
                       tried |-> sub.tried,
                       undos |-> Append(sub.undos,
                                        [before |-> before.grid, after |-> reset(sub)])]
             assigned(before, value, tried) ==
                 TheOne({[grid |-> inferred.grid, unassigned |-> inferred.unassigned,
                          tried |-> tried, undos |-> before.undos] :
                            inferred \in {infer_gems(h, w, SetCell(before.grid, i, j, value),
                                                     before.unassigned)}})
             try(before, value) ==
                 TheOne({IF classical_is_consistent(grid, h, w, before.grid, i, j, value)
                           THEN TheOne({undone(before, sub) :
                                          sub \in {backtrack(grid, h, w,
                                                             assigned(before, value, tried),
                                                             index + 1)}})
                         ELSE [found |-> FALSE, grid |-> before.grid,
                               unassigned |-> before.unassigned, tried |-> tried,
                               undos |-> before.undos] :
                            tried \in {Append(before.tried, <<i, j, value>>)}})
         IN TheOne({IF trap.found THEN trap ELSE try(trap, EMPTY_CELL) :
                      trap \in {try(st, TRAP_CELL)}})

\* what a call backtrack(0) leaves: the grid it returns when it found one, in
\* working what self.solution_grid holds, in tried the calls of
\* is_consistent, and in undos, for every branch that failed, the grid before
\* its value was written and the grid after the reset
searched(search) ==
    [solution |-> IF search.found THEN search.grid ELSE None,
     success |-> search.found, working |-> search.grid,
     tried |-> search.tried, undos |-> search.undos]

\* BacktrackingSolver.solve(): the returned (solution, found), in working
\* what self.solution_grid holds at the return, and in tried the calls of
\* is_consistent the search made
classical_bt_solve(grid, h, w) ==
    LET inferred == infer_gems(h, w, grid, empty_cells(grid, h, w))
    IN searched(backtrack(grid, h, w,
                          [grid |-> inferred.grid, unassigned |-> inferred.unassigned,
                           tried |-> <<>>, undos |-> <<>>], 0))

\* backtrack(0) on a solver as __init__ leaves it: solution_grid a copy of
\* the puzzle, unassigned_cells its unknown cells
backtrack_from_init(grid, h, w) ==
    searched(backtrack(grid, h, w,
                       [grid |-> grid, unassigned |-> empty_cells(grid, h, w),
                        tried |-> <<>>, undos |-> <<>>], 0))

\* ------------------------------------------------------------------------
\* solvers/sat_solver.py: the three-state encoding (Trap, Gem, Empty per cell)
\* ------------------------------------------------------------------------
States == <<TRAP_CELL, GEM_CELL, EMPTY_CELL>>

StateIndex(state) == CHOOSE k \in 1..3 : States[k] = state

\* SATSolver._initialize_variable_mapping: var_mapping[(i, j, state)]
var_mapping(w, i, j, state) == 3 * (i * w + j) + StateIndex(state)

\* inverse_mapping[var]
inverse_mapping(w, var) ==
    LET idx == (var - 1) \div 3
    IN <<idx \div w, idx % w, States[((var - 1) % 3) + 1]>>

\* SATSolver._get_neighbors
SAT_get_neighbors(h, w, i, j) ==
    LET cand == [k \in 1..9 |-> <<i + ((k - 1) \div 3) - 1, j + ((k - 1) % 3) - 1>>]
    IN SelectSeq(cand, LAMBDA p : /\ ~(p[1] = i /\ p[2] = j)
                                  /\ 0 <= p[1] /\ p[1] < h
                                  /\ 0 <= p[2] /\ p[2] < w)

Negated(lits) == [k \in 1..Len(lits) |-> -lits[k]]

RECURSIVE Concat(_)
Concat(lists) == IF lists = <<>> THEN <<>> ELSE Head(lists) \o Concat(Tail(lists))

\* SATSolver._add_cell_has_one_state: the clauses appended
add_cell_has_one_state(w, i, j) ==
    LET T == var_mapping(w, i, j, TRAP_CELL)
        G == var_mapping(w, i, j, GEM_CELL)
        E == var_mapping(w, i, j, EMPTY_CELL)
    IN << <<T, G, E>>, <<-T, -G>>, <<-T, -E>>, <<-G, -E>> >>

\* itertools.combinations(variables, r) raises ValueError for a negative r
CardinalityRaises(variables, k) == Len(variables) - k + 1 < 0

\* SATSolver._add_cardinality_constraint: the clauses appended when it returns
add_cardinality_constraint(variables, k) ==
    LET n == Len(variables)
        no_more == combinations(variables, k + 1)
        at_least == combinations(variables, n - k + 1)
    IN [c \in 1..Len(no_more) |-> Negated(no_more[c])] \o at_least

\* SATSolver._add_fixed_cell_constraints
add_fixed_cell_constraints(h, w, i, j, cell_value) ==
    IF isdigit(cell_value)
    THEN LET nbrs == SAT_get_neighbors(h, w, i, j)
             trap_vars == [k \in 1..Len(nbrs) |->
                              var_mapping(w, nbrs[k][1], nbrs[k][2], TRAP_CELL)]
         IN << <<-var_mapping(w, i, j, TRAP_CELL)>>,
               <<-var_mapping(w, i, j, GEM_CELL)>>,
               <<-var_mapping(w, i, j, EMPTY_CELL)>> >>
            \o add_cardinality_constraint(trap_vars, int(cell_value))
    ELSE <<>>

\* SATSolver._add_gem_constraints
add_gem_constraints(h, w, i, j) ==
    LET nbrs == SAT_get_neighbors(h, w, i, j)
        G == var_mapping(w, i, j, GEM_CELL)
        no_trap == [k \in 1..Len(nbrs) |->
                       <<-G, -var_mapping(w, nbrs[k][1], nbrs[k][2], TRAP_CELL)>>]
        non_empty_neighbor_vars ==
            [k \in 1..Len(nbrs) |-> -var_mapping(w, nbrs[k][1], nbrs[k][2], EMPTY_CELL)]
    IN no_trap \o (IF non_empty_neighbor_vars # <<>>
                   THEN << <<-G>> \o non_empty_neighbor_vars >>
                   ELSE <<>>)

\* SATSolver._add_unreachable_cell_constraints
add_unreachable_cell_constraints(h, w, i, j) ==
    LET nbrs == SAT_get_neighbors(h, w, i, j)
        empty_neighbor_vars ==
            [k \in 1..Len(nbrs) |-> var_mapping(w, nbrs[k][1], nbrs[k][2], EMPTY_CELL)]
    IN [k \in 1..Len(empty_neighbor_vars) |->
           <<-empty_neighbor_vars[k], var_mapping(w, i, j, EMPTY_CELL)>>]

\* generate_cnf leaves by ValueError at the first Number cell that asks for
\* more traps than its neighbour count plus one
GenerateCnfRaisesValueError(grid, h, w) ==
    \E i \in 0..(h - 1), j \in 0..(w - 1) :
        /\ isdigit(grid[i][j])
        /\ CardinalityRaises(SAT_get_neighbors(h, w, i, j), int(grid[i][j]))

\* the clauses generate_cnf appends for one cell
cell_clauses(grid, h, w, i, j) ==
    add_cell_has_one_state(w, i, j)
    \o (IF grid[i][j] # EMPTY_CELL
        THEN add_fixed_cell_constraints(h, w, i, j, grid[i][j])
        ELSE <<>>)
    \o add_gem_constraints(h, w, i, j)
    \o add_unreachable_cell_constraints(h, w, i, j)

\* SATSolver.generate_cnf when it returns: the clauses after set(tuple(...)).
\* The order of the list rebuilt from the set is not modelled; nothing reads it.
generate_cnf(grid, h, w) ==
    LET appended == Concat([k \in 1..(h * w) |->
                               cell_clauses(grid, h, w, (k - 1) \div w, (k - 1) % w)])
    IN Range(appended)

\* a clause all of whose literals are assigned and false
Falsified(clause, assignment) ==
    \A k \in 1..Len(clause) :
        /\ abs(clause[k]) <= Len(assignment)
        /\ assignment[abs(clause[k])] # (clause[k] > 0)

\* Solver.solve and get_model: the models of the formula over variables 1..nv
RECURSIVE sat_models(_, _, _)
sat_models(cls, nv, assignment) ==
    IF \E c \in cls : Falsified(c, assignment) THEN {}
    ELSE IF Len(assignment) = nv THEN {assignment}
    ELSE sat_models(cls, nv, Append(assignment, FALSE))
         \cup sat_models(cls, nv, Append(assignment, TRUE))

\* the grid SATSolver.solve builds from a model
sat_solution_grid(grid, h, w, model) ==
    LET TrueVars(i, j) == {k \in 1..3 : model[3 * (i * w + j) + k]}
    IN [i \in 0..(h - 1) |-> [j \in 0..(w - 1) |->
          IF grid[i][j] \notin {EMPTY_CELL, TRAP_CELL, GEM_CELL} THEN grid[i][j]
          ELSE IF TrueVars(i, j) = {} THEN EMPTY_CELL
          ELSE States[CHOOSE k \in TrueVars(i, j) : \A k2 \in TrueVars(i, j) : k2 <= k]]]

\* the grid solve returns when the formula is unsatisfiable
sat_blank_grid(h, w) == [i \in 0..(h - 1) |-> [j \in 0..(w - 1) |-> EMPTY_CELL]]

\* ------------------------------------------------------------------------
\* State
\* ------------------------------------------------------------------------
VARIABLES
    height, width,  \* the header of the map file
    puzzle,         \* the grid load_map returns
    pc,             \* where the run stands
    clauses,        \* MapToCNF.clauses
    cnf_file,       \* the DIMACS file: its lines as token lists; <<>> while unwritten
    outputs,        \* the strings to_dimacs has returned so far, oldest first
    A,              \* cardinality check: the neighbours of the Number cell taken as traps
    satisfied,      \* cardinality check: whether A satisfies every clause
    cnf,            \* the formula load_dimacs has loaded, and whether it counts as true
    results,        \* the results of the CNF solvers run so far, in the order of the runs
    bf_stop,        \* why the loop of BruteForceSolver.solve ended
    bf_evaluated,   \* how many masks BruteForceSolver.solve called check_solution on
    bt_tried,       \* the (row, col, value) backtrack_search called is_consistent on, in order
    all_match,      \* what compare_solutions has returned
    classical,      \* the result of the classical BacktrackingSolver, with its working grid
    candidate,      \* the grid handed to the validators
    verdicts,       \* what is_valid_solution and verify_solution return on it
    consistency,    \* a call is_consistent(i, j, value) on it and what it returned
    inferred,       \* the grid after infer_gems() on it, and after a second call
    cell,           \* the cell handed to flatten or get_neighbors
    cell_var,       \* the variable flatten returned for it
    cell_back,      \* the cell unflatten returned for that variable
    neighbors,      \* the list get_neighbors returned for it
    sat_cnf,        \* the clauses of SATSolver.cnf after generate_cnf
    sat_result,     \* what SATSolver.solve returned
    classical_bf,   \* the result of the classical BruteForceSolver, with its working grid
    solver,         \* a solve() running statement by statement: the solver's attributes and locals
    stack,          \* its call stack from solve() on, the innermost frame last
    returned        \* what that solve() returned

mapVars == <<height, width, puzzle>>
encVars == <<clauses, cnf_file, outputs>>
cardVars == <<A, satisfied>>
solveVars == <<cnf, results, bf_stop, bf_evaluated, bt_tried, all_match>>
valVars == <<classical, candidate, verdicts, consistency, inferred>>
utilVars == <<cell, cell_var, cell_back, neighbors>>
satVars == <<sat_cnf, sat_result>>
bruteVars == <<classical_bf, solver, stack, returned>>
restVars == <<solveVars, valVars, utilVars, satVars, bruteVars>>
vars == <<mapVars, pc, encVars, cardVars, solveVars, valVars, utilVars, satVars, bruteVars>>

Cells(h, w) == {<<r, c>> : r \in 0..(h - 1), c \in 0..(w - 1)}

\* the cells of a grid that hold a digit token
NumberCells(grid, h, w) == {p \in Cells(h, w) : isdigit(grid[p[1]][p[2]])}

\* the grid with the Number cells nums (a function cell -> value), every
\* other cell unknown
Grid(h, w, nums) ==
    [r \in 0..(h - 1) |->
        [c \in 0..(w - 1) |->
            IF <<r, c>> \in DOMAIN nums THEN DigitTokens[nums[<<r, c>>] + 1] ELSE EMPTY_CELL]]

\* load_map: a rectangular grid of at most maxCells cells with at most
\* maxNumbers Number cells whose values are in values
LoadMap(maxCells, maxNumbers, values) ==
    \E h \in 1..maxCells, w \in 1..maxCells :
        /\ h * w <= maxCells
        /\ \E S \in SUBSET Cells(h, w) :
              /\ Cardinality(S) <= maxNumbers
              /\ \E nums \in [S -> values] :
                    /\ height = h
                    /\ width = w
                    /\ puzzle = Grid(h, w, nums)

\* no solver has run and no grid has been validated
NoResult == [solution |-> None, success |-> FALSE]
NothingSolved ==
    /\ cnf = None
    /\ results = <<>>
    /\ bf_stop = "none"
    /\ bf_evaluated = 0
    /\ bt_tried = <<>>
    /\ all_match = FALSE
    /\ classical = NoResult
    /\ candidate = None
    /\ verdicts = [is_valid_solution |-> FALSE, verify_solution |-> FALSE]
    /\ consistency = None
    /\ inferred = None
    /\ cell = None
    /\ cell_var = 0
    /\ cell_back = None
    /\ neighbors = <<>>
    /\ sat_cnf = {}
    /\ sat_result = NoResult
    /\ classical_bf = NoResult
    /\ solver = None
    /\ stack = <<>>
    /\ returned = None

\* MapToCNF.__init__
NewConverter ==
    /\ clauses = <<>>
    /\ cnf_file = <<>>

InitEncode ==
    /\ LoadMap(MaxCells, MaxNumbers, 0..MaxValue)
    /\ NewConverter
    /\ pc = "loaded"
    /\ outputs = <<>>
    /\ A = {}
    /\ satisfied = FALSE
    /\ NothingSolved

\* ------------------------------------------------------------------------
\* Actions of the encoder
\* ------------------------------------------------------------------------
\* converter.convert_to_cnf() returning
ConvertToCnf ==
    /\ pc = "loaded"
    /\ ~ConvertRaisesIndexError(height, width)
    /\ \E order \in SetOrders : clauses' = convert_to_cnf(puzzle, width, order)
    /\ pc' = "converted"
    /\ UNCHANGED <<mapVars, cnf_file, outputs, cardVars, restVars>>

\* converter.convert_to_cnf() leaving by IndexError: self.clauses stays []
ConvertRaises ==
    /\ pc = "loaded"
    /\ ConvertRaisesIndexError(height, width)
    /\ pc' = "raised"
    /\ UNCHANGED <<mapVars, encVars, cardVars, restVars>>

\* converter.to_dimacs(cnf_path)
ToDimacs ==
    /\ pc = "converted"
    /\ cnf_file' = dimacs_lines(width, clauses)
    /\ outputs' = Append(outputs, to_dimacs(width, clauses))
    /\ pc' = "exported"
    /\ UNCHANGED <<mapVars, clauses, cardVars, restVars>>

\* the same grid handed to a second MapToCNF
EncodeAgain ==
    /\ pc = "exported"
    /\ Len(outputs) < 2
    /\ clauses' = <<>>
    /\ pc' = "loaded"
    /\ UNCHANGED <<mapVars, cnf_file, outputs, cardVars, restVars>>

NextEncode == ConvertToCnf \/ ConvertRaises \/ ToDimacs \/ EncodeAgain

SpecEncode == InitEncode /\ [][NextEncode]_vars

\* C8: encoding the same grid twice (convert_to_cnf, then to_dimacs) yields
\* the same serialized output, whatever order the clause set is iterated in:
\* the same lines in the same order, the same literal order in every line.
C8_EncodingDeterministic ==
    Len(outputs) = 2 => outputs[1] = outputs[2]

\* two encodings done, of a clause set in which several clauses have the same
\* length, so that only the literals decide their order
C8_Witness ==
    /\ Len(outputs) = 2
    /\ \E i, j \in 1..Len(clauses) : i < j /\ Len(clauses[i]) = Len(clauses[j])

\* C9: the clause list convert_to_cnf returns holds no two clauses with the
\* same set of literals, no clause with a repeated literal, and no clause with
\* a literal and its negation.
C9_NoDuplicateClauses ==
    pc \in {"converted", "exported"} =>
        /\ \A i, j \in 1..Len(clauses) :
              i < j => Range(clauses[i]) # Range(clauses[j])
        /\ \A k \in 1..Len(clauses) :
              /\ Cardinality(Range(clauses[k])) = Len(clauses[k])
              /\ \A l \in Range(clauses[k]) : -l \notin Range(clauses[k])

\* a conversion during which the same clause was added more than once
C9_Witness ==
    /\ pc = "converted"
    /\ LET keys == AddedKeys(puzzle, width, 0)
       IN \E j, k \in 1..Len(keys) : j < k /\ Range(keys[j]) = Range(keys[k])

LiteralsAscending(c) == \A i \in 1..(Len(c) - 1) : c[i] < c[i + 1]

KeyOrdered(a, b) ==
    \/ Len(a) < Len(b)
    \/ Len(a) = Len(b) /\ ListLess(a, b)

\* C10 (as claimed): in the exported clause set the clauses are sorted by
\* (length, literal sequence) and the literals of every clause line are in
\* sorted order.
C10_SortedExport ==
    pc = "exported" =>
        /\ \A k \in 1..(Len(clauses) - 1) : KeyOrdered(clauses[k], clauses[k + 1])
        /\ \A k \in 1..Len(clauses) : LiteralsAscending(clauses[k])

\* ------------------------------------------------------------------------
\* The encoding of one Number cell, checked against every assignment of its
\* neighbours
\* ------------------------------------------------------------------------
\* the cells around p, as a set
NeighborSet(p, h, w) == Range(get_neighbors(p[1], p[2], h, w))

\* a grid with a single Number cell, of any value 0..8
InitCard ==
    /\ \E h \in 1..MaxCells, w \in 1..MaxCells :
          /\ h * w <= MaxCells
          /\ \E p \in Cells(h, w), n \in 0..8 :
                /\ height = h
                /\ width = w
                /\ puzzle = Grid(h, w, [q \in {p} |-> n])
    /\ NewConverter
    /\ pc = "loaded"
    /\ outputs = <<>>
    /\ A = {}
    /\ satisfied = FALSE
    /\ NothingSolved

\* the assignment over the variables 1..width*height that makes exactly the
\* cells of traps true, numbered as the solvers number them
TrapAssignment(traps, h, w) ==
    [v \in 1..(w * h) |-> \E p \in traps : v = p[1] * w + p[2] + 1]

\* the single Number cell of the puzzle and its value
TheNumberCell == CHOOSE p \in Cells(height, width) : isdigit(puzzle[p[1]][p[2]])
TheNumber == int(puzzle[TheNumberCell[1]][TheNumberCell[2]])

\* check_solution on the clause set of the converter, for an assignment that
\* makes a set A of the Number cell's (unknown) neighbours traps
CheckAssignment ==
    /\ pc = "converted"
    /\ \E traps \in SUBSET NeighborSet(TheNumberCell, height, width) :
          /\ A' = traps
          /\ satisfied' = check_solution(clauses, TrapAssignment(traps, height, width))
    /\ pc' = "checked"
    /\ UNCHANGED <<mapVars, encVars, restVars>>

NextCard == ConvertToCnf \/ ConvertRaises \/ CheckAssignment

SpecCard == InitCard /\ [][NextCard]_vars

\* C1 (as claimed): with a single Number(n) cell, an assignment A of its
\* unknown neighbours satisfies every generated clause if and only if exactly
\* n entries of A are true.
C1_ExactCardinality ==
    pc = "checked" => (satisfied <=> Cardinality(A) = TheNumber)

\* what remains true: the equivalence on the grids the encoder handles as
\* intended (the Number cell lies in a row the loops visit, the neighbourhood
\* is the grid's own, and the number does not exceed its neighbour count)
C1_ExactOnWellFormedSquare ==
    (/\ pc = "checked"
     /\ height = width
     /\ TheNumber <= Cardinality(NeighborSet(TheNumberCell, height, width)))
    => (satisfied <=> Cardinality(A) = TheNumber)

\* ------------------------------------------------------------------------
\* The CNF solvers on the exported file
\* ------------------------------------------------------------------------
Init ==
    /\ LoadMap(MaxCells, MaxNumbers, 0..MaxValue)
    /\ NewConverter
    /\ pc = "loaded"
    /\ outputs = <<>>
    /\ A = {}
    /\ satisfied = FALSE
    /\ NothingSolved

\* solve_map after the export: SATSolver(puzzle, dimacs_file=cnf_path) is
\* called with a keyword SATSolver.__init__ does not take, outside the try
SolveMapRaises ==
    /\ pc = "exported"
    /\ pc' = "sat_type_error"
    /\ UNCHANGED <<mapVars, encVars, cardVars, restVars>>

\* BruteForceSolver(puzzle, dimacs_file=cnf_path).solve()
BruteForceSolve ==
    /\ pc = "exported"
    /\ \E truthy \in CnfTruthiness(load_dimacs(cnf_file)) :
          LET loaded == [clauses |-> load_dimacs(cnf_file), truthy |-> truthy]
              r == bf_solve(puzzle, height, width, loaded)
          IN /\ cnf' = loaded
             /\ results' = Append(results, [solver |-> "bf", solution |-> r.solution,
                                            success |-> r.success])
             /\ bf_stop' = r.stop
             /\ bf_evaluated' = r.evaluated
             /\ puzzle' = IF r.stop = "no_cnf" THEN puzzle
                           ELSE written_back(puzzle, copy_rows(puzzle), r.solution)
    /\ pc' = "bf_done"
    /\ UNCHANGED <<height, width, encVars, cardVars, bt_tried, all_match, valVars, utilVars, satVars, bruteVars>>

\* BacktrackingSolver(puzzle, dimacs_file=cnf_path).solve(), on the same file
BacktrackingSolve ==
    /\ pc = "bf_done"
    /\ LET loaded == [clauses |-> load_dimacs(cnf_file), truthy |-> cnf.truthy]
           r == bt_solve(puzzle, height, width, loaded)
       IN /\ results' = Append(results, [solver |-> "bt", solution |-> r.solution,
                                         success |-> r.success])
          /\ bt_tried' = r.tried
          /\ puzzle' = written_back(puzzle, copy_rows(puzzle), r.solution)
    /\ pc' = "bt_done"
    /\ UNCHANGED <<height, width, encVars, cardVars, cnf, bf_stop, bf_evaluated, all_match, valVars, utilVars, satVars, bruteVars>>

\* compare_solutions(results)
CompareSolutions ==
    /\ pc = "bt_done"
    /\ all_match' = compare_solutions(results)
    /\ pc' = "compared"
    /\ UNCHANGED <<mapVars, encVars, cardVars, cnf, results, bf_stop, bf_evaluated, bt_tried, valVars, utilVars, satVars, bruteVars>>

\* BruteForceSolver(puzzle).solve() of classical_solvers, on the puzzles of at
\* most MaxBruteCells cells and on the long column
ClassicalBruteForceSolve ==
    /\ pc = "loaded"
    /\ height * width <= MaxBruteCells \/ (height = LongColumn /\ width = 1)
    /\ classical_bf' = classical_bf_solve(puzzle, height, width)
    /\ puzzle' = written_back(puzzle, copy_rows(puzzle), classical_bf'.working)
    /\ pc' = "classical_bf_done"
    /\ UNCHANGED <<height, width, encVars, cardVars, solveVars, valVars, utilVars, satVars,
                   solver, stack, returned>>

Next ==
    \/ ConvertToCnf
    \/ ConvertRaises
    \/ ToDimacs
    \/ SolveMapRaises
    \/ BruteForceSolve
    \/ BacktrackingSolve
    \/ CompareSolutions

Spec == Init /\ [][Next]_vars

\* ------------------------------------------------------------------------
\* The classical backtracking solver and the validator
\* ------------------------------------------------------------------------
InitClassical ==
    /\ LoadMap(MaxCells, MaxNumbers, 0..MaxValue)
    /\ NewConverter
    /\ pc = "loaded"
    /\ outputs = <<>>
    /\ A = {}
    /\ satisfied = FALSE
    /\ NothingSolved

\* BacktrackingSolver(puzzle).solve() of classical_solvers
ClassicalBacktrackingSolve ==
    /\ pc = "loaded"
    /\ classical' = classical_bt_solve(puzzle, height, width)
    /\ puzzle' = written_back(puzzle, copy_rows(puzzle), classical'.working)
    /\ pc' = "classical_done"
    /\ UNCHANGED <<height, width, encVars, cardVars, solveVars, candidate, verdicts, consistency, inferred, utilVars, satVars, bruteVars>>

\* the returned grid handed to the validators
ValidateClassical ==
    /\ pc = "classical_done"
    /\ classical.success
    /\ candidate' = classical.solution
    /\ verdicts' = [is_valid_solution |->
                        is_valid_solution(puzzle, height, width, classical.solution),
                    verify_solution |-> verify_solution(puzzle, classical.solution)]
    /\ pc' = "validated"
    /\ UNCHANGED <<mapVars, encVars, cardVars, solveVars, classical, consistency, inferred, utilVars, satVars, bruteVars>>

NextClassical == ClassicalBacktrackingSolve \/ ValidateClassical

SpecClassical == InitClassical /\ [][NextClassical]_vars

\* ------------------------------------------------------------------------
\* The validators on any candidate grid
\* ------------------------------------------------------------------------
InitValidate ==
    /\ LoadMap(MaxCandidateCells, MaxNumbers, 0..MaxValue)
    /\ NewConverter
    /\ pc = "loaded"
    /\ outputs = <<>>
    /\ A = {}
    /\ satisfied = FALSE
    /\ NothingSolved

\* the candidate grids of a puzzle: its Number cells kept, every unknown cell
\* left empty or made a trap or a gem
Candidates(grid, h, w) ==
    LET unknown == {p \in Cells(h, w) : grid[p[1]][p[2]] = EMPTY_CELL}
    IN {[r \in 0..(h - 1) |->
            [c \in 0..(w - 1) |->
                IF <<r, c>> \in unknown THEN f[<<r, c>>] ELSE grid[r][c]]] :
        f \in [unknown -> {EMPTY_CELL, TRAP_CELL, GEM_CELL}]}

\* is_valid_solution and verify_solution called on a candidate
Validate ==
    /\ pc = "loaded"
    /\ \E solution \in Candidates(puzzle, height, width) :
          /\ candidate' = solution
          /\ verdicts' = [is_valid_solution |->
                              is_valid_solution(puzzle, height, width, solution),
                          verify_solution |-> verify_solution(puzzle, solution)]
    /\ pc' = "validated"
    /\ UNCHANGED <<mapVars, encVars, cardVars, solveVars, classical, consistency, inferred, utilVars, satVars, bruteVars>>

NextValidate == Validate

SpecValidate == InitValidate /\ [][NextValidate]_vars

\* ------------------------------------------------------------------------
\* Properties of the solvers and the validators
\* ------------------------------------------------------------------------
\* the results of the two CNF solvers, once both have run
BfResult == results[1]
BtResult == results[2]
BothSolved == pc \in {"bt_done", "compared"}

\* the Validator's verdict on a grid returned for the puzzle
Accepts(solution) ==
    solution # None /\ is_valid_solution(puzzle, height, width, solution)

\* C2: when the brute-force solve and the backtracking solve both report
\* found, the returned grids agree on every cell; and if they differ, the
\* Validator rejects at least one of them.
C2_StrategiesAgree ==
    (BothSolved /\ BfResult.success /\ BtResult.success) =>
        /\ BfResult.solution = BtResult.solution
        /\ (BfResult.solution # BtResult.solution =>
                ~Accepts(BfResult.solution) \/ ~Accepts(BtResult.solution))

\* two cells of a grid are neighbours: different, and one step apart at most
\* in each direction
Adjacent(p, q) ==
    /\ p # q
    /\ abs(p[1] - q[1]) <= 1
    /\ abs(p[2] - q[2]) <= 1

\* the traps around a cell of a grid
TrapsAround(solution, h, w, p) ==
    {q \in Cells(h, w) : Adjacent(p, q) /\ solution[q[1]][q[2]] = TRAP_CELL}

\* every Number cell of the puzzle has exactly its number of traps around it
NumbersExact(solution) ==
    \A p \in NumberCells(puzzle, height, width) :
        Cardinality(TrapsAround(solution, height, width, p)) = int(puzzle[p[1]][p[2]])

\* the returned grid keeps the Number cells of the puzzle and resolves every
\* unknown cell to a trap, a gem or an empty cell
ResolvesPuzzle(solution) ==
    \A p \in Cells(height, width) :
        IF isdigit(puzzle[p[1]][p[2]])
        THEN solution[p[1]][p[2]] = puzzle[p[1]][p[2]]
        ELSE solution[p[1]][p[2]] \in {TRAP_CELL, GEM_CELL, EMPTY_CELL}

\* C3: whenever the classical BacktrackingSolver.solve reports found, the
\* returned grid resolves the puzzle, the Validator (is_valid_solution)
\* accepts it, and every Number(n) cell has exactly n Trap neighbours.
C3_ClassicalFoundIsValid ==
    (pc = "classical_done" /\ classical.success) =>
        /\ ResolvesPuzzle(classical.solution)
        /\ Accepts(classical.solution)
        /\ NumbersExact(classical.solution)

\* C4: whenever the CNF-based BruteForceSolver.solve reports found, the
\* Validator accepts the returned grid: every Number(n) cell has exactly n
\* Trap neighbours and no Gem cell has a Trap neighbour.
C4_BruteForceFoundIsValid ==
    (pc = "bf_done" /\ BfResult.success) =>
        /\ Accepts(BfResult.solution)
        /\ NumbersExact(BfResult.solution)
        /\ \A p \in Cells(height, width) :
              BfResult.solution[p[1]][p[2]] = GEM_CELL =>
                  TrapsAround(BfResult.solution, height, width, p) = {}

\* what solve returns to its caller for the puzzle when every one of the 2^m
\* masks was checked and none satisfied: the untouched copy of the puzzle
\* and found = False
UnsatisfiableOutcome == [solver |-> "bf", solution |-> puzzle, success |-> FALSE]

\* the loop that checks every mask without success does return that outcome
ExhaustedReturnsUnsatisfiable ==
    (pc = "bf_done" /\ bf_stop = "exhausted") => BfResult = UnsatisfiableOutcome

\* C5: when the enumeration stops at the mask cap with masks left untried,
\* the outcome solve returns differs from the one it returns when all 2^m
\* masks were tried without success, so a caller can tell the two apart.
C5_TruncatedDistinguishable ==
    (pc = "bf_done" /\ bf_stop = "cap") => BfResult # UnsatisfiableOutcome

\* the three rules of the Validator, on the candidate of the state
\* (1) every Number(n) cell has exactly n Trap neighbours
RuleNumbers == NumbersExact(candidate)

\* (2) every Gem cell has no Trap neighbour and a neighbour that is not empty
RuleGems ==
    \A p \in Cells(height, width) :
        candidate[p[1]][p[2]] = GEM_CELL =>
            /\ TrapsAround(candidate, height, width, p) = {}
            /\ \E q \in Cells(height, width) :
                  Adjacent(p, q) /\ candidate[q[1]][q[2]] # EMPTY_CELL

\* (3) every cell whose neighbours are all empty is itself empty
RuleUnreachable ==
    \A p \in Cells(height, width) :
        (\A q \in Cells(height, width) :
            Adjacent(p, q) => candidate[q[1]][q[2]] = EMPTY_CELL)
        => candidate[p[1]][p[2]] = EMPTY_CELL

\* a gem of the candidate lies next to a trap
GemNextToTrap ==
    \E p \in Cells(height, width) :
        /\ candidate[p[1]][p[2]] = GEM_CELL
        /\ TrapsAround(candidate, height, width, p) # {}

\* C6: the Validator accepts a candidate grid if and only if the three rules
\* hold of it; is_valid_solution and verify_solution return the same verdict
\* on every (puzzle, candidate) pair; a gem next to a trap is always rejected.
C6_ValidatorRules ==
    pc = "validated" =>
        /\ verdicts.is_valid_solution <=> (RuleNumbers /\ RuleGems /\ RuleUnreachable)
        /\ verdicts.verify_solution = verdicts.is_valid_solution
        /\ GemNextToTrap => ~verdicts.is_valid_solution /\ ~verdicts.verify_solution

\* a candidate that meets its Number cells' counts and is rejected all the
\* same, for a gem that lies next to a trap
C6_Witness ==
    /\ pc = "validated"
    /\ RuleNumbers
    /\ GemNextToTrap
    /\ ~verdicts.is_valid_solution

\* the 3x3 grid with Number 2 at (0,1), Number 1 at (1,0), every other cell
\* unknown
ScenarioGrid == Grid(3, 3, (<<0, 1>> :> 2) @@ (<<1, 0>> :> 1))
IsScenario == height = 3 /\ width = 3 /\ puzzle = ScenarioGrid

\* the trap/gem assignments of the unknown cells that satisfy every clause
\* loaded from the exported file, each as the mask of its traps
SatisfyingMasks ==
    LET ec == empty_cells(puzzle, height, width)
    IN {mask \in 0..(2 ^ Len(ec) - 1) :
            check_solution(cnf.clauses, mask_assignment(ec, height, width, mask))}

\* the grid of an assignment given as a mask
GridOfMask(mask) ==
    LET ec == empty_cells(puzzle, height, width)
    IN mask_grid(puzzle, ec, width, mask_assignment(ec, height, width, mask))

\* C7 (as claimed): on the scenario grid exactly one assignment of the seven
\* unknown cells satisfies the generated constraints, and brute-force and
\* backtracking both return it.
C7_UniqueAssignment ==
    (IsScenario /\ BothSolved) =>
        /\ Cardinality(SatisfyingMasks) = 1
        /\ \A mask \in SatisfyingMasks :
              /\ BfResult.success /\ BfResult.solution = GridOfMask(mask)
              /\ BtResult.success /\ BtResult.solution = GridOfMask(mask)

\* C7 (amended): on the scenario grid exactly twelve assignments of the
\* seven unknown cells satisfy the generated constraints, and brute-force and
\* backtracking each return one of them.
C7_TwelveAssignments ==
    (IsScenario /\ BothSolved) =>
        /\ Cardinality(SatisfyingMasks) = 12
        /\ BfResult.success
        /\ \E mask \in SatisfyingMasks : BfResult.solution = GridOfMask(mask)
        /\ BtResult.success
        /\ \E mask \in SatisfyingMasks : BtResult.solution = GridOfMask(mask)

\* both solvers have run on the scenario grid
C7_Witness == IsScenario /\ pc = "compared" /\ BfResult.success /\ BtResult.success

\* ------------------------------------------------------------------------
\* Properties of the clause set
\* ------------------------------------------------------------------------
Converted == pc \in {"converted", "exported"}

\* the variable of a cell, as the solvers number the cells
CellVar(p) == p[1] * width + p[2] + 1

\* the unknown neighbours of a cell of the puzzle
UnknownNeighbors(p) ==
    {q \in Cells(height, width) : Adjacent(p, q) /\ puzzle[q[1]][q[2]] = EMPTY_CELL}

\* the clauses the visit of cell p adds during convert_to_cnf; none when the
\* loops over range(self.n) do not reach p
Contribution(p) ==
    IF p[1] < width /\ p[2] < width
    THEN CellClauseKeys(puzzle, width, p[1], p[2])
    ELSE <<>>

\* C11 (as claimed): no literal of any clause is on the variable of a Number
\* cell, and a Number cell with zero unknown neighbours contributes no clause
\* at all.
C11_OnlyUnknownVariables ==
    Converted =>
        /\ \A k \in 1..Len(clauses) : \A l \in Range(clauses[k]) :
              \A p \in NumberCells(puzzle, height, width) : abs(l) # CellVar(p)
        /\ \A p \in NumberCells(puzzle, height, width) :
              UnknownNeighbors(p) = {} => Contribution(p) = <<>>

\* C11 (amended): a literal on the variable v of a Number cell occurs only in
\* the unit clause (not v) of that cell, and a Number cell with zero unknown
\* neighbours contributes no other clause.
C11_NumberVariablesOnlyNegatedUnits ==
    Converted =>
        /\ \A k \in 1..Len(clauses) : \A l \in Range(clauses[k]) :
              \A p \in NumberCells(puzzle, height, width) :
                  abs(l) = CellVar(p) => clauses[k] = <<-CellVar(p)>>
        /\ \A p \in NumberCells(puzzle, height, width) :
              UnknownNeighbors(p) = {} => Range(Contribution(p)) \subseteq {<<-CellVar(p)>>}

\* a clause set with the unit clause of a Number cell that has no unknown
\* neighbour
C11_Witness ==
    /\ pc = "converted"
    /\ \E p \in NumberCells(puzzle, height, width) :
          /\ UnknownNeighbors(p) = {}
          /\ \E k \in 1..Len(clauses) : clauses[k] = <<-CellVar(p)>>

\* the Number cells of the puzzle with the value 0
ZeroCells == {p \in NumberCells(puzzle, height, width) : int(puzzle[p[1]][p[2]]) = 0}

\* the clause set holds the unit clause (not v) for every unknown neighbour v
\* of every Number(0) cell
ZeroNeighborsNegated ==
    \A p \in ZeroCells : \A q \in UnknownNeighbors(p) :
        \E k \in 1..Len(clauses) : clauses[k] = <<-CellVar(q)>>

\* C12: a Number(0) cell forces all of its unknown neighbours to Gem: the
\* clause set contains the unit clause (not v) for every unknown neighbour v
\* of that cell (so that every satisfying assignment makes each of them false).
C12_ZeroForcesGems == Converted => ZeroNeighborsNegated

\* what remains true: the same on the grids whose rows the loops all visit
C12_ZeroForcesGemsOnSquare == (Converted /\ height = width) => ZeroNeighborsNegated

\* ------------------------------------------------------------------------
\* utils/solver_utils.py called on the cells of a grid
\* ------------------------------------------------------------------------
\* a grid of any shape, every cell unknown
InitUtils ==
    /\ LoadMap(MaxCells, 0, 0..MaxValue)
    /\ NewConverter
    /\ pc = "loaded"
    /\ outputs = <<>>
    /\ A = {}
    /\ satisfied = FALSE
    /\ NothingSolved

\* flatten(width, row, col) for a cell of the grid
Flatten ==
    /\ pc = "loaded"
    /\ \E row \in 0..(height - 1), col \in 0..(width - 1) :
          /\ cell' = <<row, col>>
          /\ cell_var' = flatten(width, row, col)
    /\ pc' = "flattened"
    /\ UNCHANGED <<mapVars, encVars, cardVars, solveVars, valVars, cell_back, neighbors, satVars, bruteVars>>

\* unflatten(width, var) for the variable flatten returned
Unflatten ==
    /\ pc = "flattened"
    /\ cell_back' = unflatten(width, cell_var)
    /\ pc' = "unflattened"
    /\ UNCHANGED <<mapVars, encVars, cardVars, solveVars, valVars, cell, cell_var, neighbors, satVars, bruteVars>>

\* get_neighbors(i, j, height, width) for a cell of the grid
GetNeighbors ==
    /\ pc = "loaded"
    /\ \E i \in 0..(height - 1), j \in 0..(width - 1) :
          /\ cell' = <<i, j>>
          /\ neighbors' = get_neighbors(i, j, height, width)
    /\ pc' = "neighbors"
    /\ UNCHANGED <<mapVars, encVars, cardVars, solveVars, valVars, cell_var, cell_back, satVars, bruteVars>>

NextUtils == Flatten \/ Unflatten \/ GetNeighbors

SpecUtils == InitUtils /\ [][NextUtils]_vars

\* C13: the cell-to-variable mapping v = row*width + col + 1 is a bijection
\* between the cells of the grid and 1..height*width: no other cell has the
\* variable of a cell, every number of 1..height*width is the variable of a
\* cell, and unflatten gives back the cell flatten was called on.
C13_FlattenBijection ==
    pc = "unflattened" =>
        /\ cell_var = cell[1] * width + cell[2] + 1
        /\ cell_var \in 1..(height * width)
        /\ \A q \in Cells(height, width) :
              q # cell => flatten(width, q[1], q[2]) # cell_var
        /\ \A v \in 1..(height * width) :
              \E q \in Cells(height, width) : flatten(width, q[1], q[2]) = v
        /\ cell_back = cell

\* the round trip for the last cell of a grid with several rows and columns
C13_Witness ==
    /\ pc = "unflattened"
    /\ height > 1 /\ width > 1
    /\ cell = <<height - 1, width - 1>>
    /\ cell_back = cell

\* a Number cell no grid can satisfy: more traps asked for than it has unknown
\* neighbours, or a value outside 1..8
Malformed(p) ==
    LET n == int(puzzle[p[1]][p[2]])
    IN Cardinality(UnknownNeighbors(p)) < n \/ n \notin 1..8

\* C14: a puzzle with a Number(n) cell whose count of unknown neighbours is
\* below n (or whose n is outside 1..8) is rejected before any clause set is
\* produced: convert_to_cnf never returns a clause set for it.
C14_MalformedRejected ==
    Converted => \A p \in NumberCells(puzzle, height, width) : ~Malformed(p)

\* ------------------------------------------------------------------------
\* The SAT solver on small grids
\* ------------------------------------------------------------------------
InitSat ==
    /\ LoadMap(MaxSatCells, MaxNumbers, 0..MaxValue)
    /\ NewConverter
    /\ pc = "loaded"
    /\ outputs = <<>>
    /\ A = {}
    /\ satisfied = FALSE
    /\ NothingSolved

\* SATSolver(puzzle).generate_cnf() returning, on the puzzles of at most
\* MaxSatCells cells
GenerateCnf ==
    /\ pc = "loaded"
    /\ height * width <= MaxSatCells
    /\ ~GenerateCnfRaisesValueError(puzzle, height, width)
    /\ sat_cnf' = generate_cnf(puzzle, height, width)
    /\ pc' = "sat_generated"
    /\ UNCHANGED <<mapVars, encVars, cardVars, solveVars, valVars, utilVars, sat_result, bruteVars>>

\* SATSolver(puzzle).generate_cnf() leaving by ValueError
GenerateCnfRaises ==
    /\ pc = "loaded"
    /\ height * width <= MaxSatCells
    /\ GenerateCnfRaisesValueError(puzzle, height, width)
    /\ pc' = "sat_value_error"
    /\ UNCHANGED <<mapVars, encVars, cardVars, restVars>>

\* SATSolver.solve() on the generated formula: any model may be the one the
\* SAT library returns.  solution_grid is built cell by cell from EMPTY_CELL,
\* self.puzzle is only read
SatSolve ==
    /\ pc = "sat_generated"
    /\ LET models == sat_models(sat_cnf, 3 * height * width, <<>>)
       IN IF models = {}
          THEN sat_result' = [solution |-> sat_blank_grid(height, width), success |-> FALSE]
          ELSE \E model \in models :
                  sat_result' = [solution |-> sat_solution_grid(puzzle, height, width, model),
                                 success |-> TRUE]
    /\ pc' = "sat_solved"
    /\ UNCHANGED <<mapVars, encVars, cardVars, solveVars, valVars, utilVars, sat_cnf, bruteVars>>

NextSat == ConvertToCnf \/ ConvertRaises \/ GenerateCnf \/ GenerateCnfRaises \/ SatSolve

SpecSat == InitSat /\ [][NextSat]_vars

\* C15: on every grid of digit and unknown tokens, convert_to_cnf and
\* generate_cnf finish by returning a value; neither leaves by an exception.
C15_EncodersNeverRaise == pc \notin {"raised", "sat_value_error"}

\* some completion of the puzzle is accepted by the Validator
HasValidGrid == \E s \in Candidates(puzzle, height, width) : Accepts(s)

\* C17: for every puzzle that has a grid accepted by the Validator, the
\* three-state formula of generate_cnf is satisfiable and SATSolver.solve
\* reports found; a Number cell does not make the formula unsatisfiable.
C17_ValidPuzzleSatisfiable ==
    (pc = "sat_solved" /\ HasValidGrid) => sat_result.success

\* the truth of a clause over Empty variables when exactly the cells of
\* empties are Empty
EmptyClauseTrue(clause, empties) ==
    \E k \in 1..Len(clause) :
        LET at == inverse_mapping(width, abs(clause[k]))
        IN (<<at[1], at[2]>> \in empties) <=> (clause[k] > 0)

\* C18: the unreachable-cell constraint generate_cnf adds for a cell with
\* neighbours is equivalent to the single clause "all neighbours Empty
\* implies this cell Empty": the same assignments of the Empty variables
\* satisfy both.
C18_UnreachableIsOneClause ==
    pc = "sat_generated" =>
        \A p \in Cells(height, width) :
            LET nbrs == Range(SAT_get_neighbors(height, width, p[1], p[2]))
                added == Range(add_unreachable_cell_constraints(height, width, p[1], p[2]))
            IN nbrs # {} =>
                  /\ added \subseteq sat_cnf
                  /\ \A empties \in SUBSET (nbrs \cup {p}) :
                        (\A c \in added : EmptyClauseTrue(c, empties))
                            <=> (nbrs \subseteq empties => p \in empties)

\* the Chebyshev distance of two cells
Chebyshev(p, q) == Max(abs(p[1] - q[1]), abs(p[2] - q[2]))

OnBorderRow(p) == p[1] \in {0, height - 1}
OnBorderCol(p) == p[2] \in {0, width - 1}

\* 3 for a corner cell, 5 for any other cell of the border, 8 inside
MooreCount(p) ==
    IF OnBorderRow(p) /\ OnBorderCol(p) THEN 3
    ELSE IF OnBorderRow(p) \/ OnBorderCol(p) THEN 5
    ELSE 8

\* the list is exactly the in-bounds cells one step away, each once, never
\* the cell itself, and every cell of it has the cell among its own neighbours
ClippedMoore ==
    /\ Range(neighbors) = {q \in Cells(height, width) : Chebyshev(cell, q) = 1}
    /\ Len(neighbors) = Cardinality(Range(neighbors))
    /\ cell \notin Range(neighbors)
    /\ \A q \in Range(neighbors) :
          cell \in Range(get_neighbors(q[1], q[2], height, width))

\* C19: for every grid with height, width >= 1 and every in-bounds cell,
\* get_neighbors returns exactly the in-bounds cells at Chebyshev distance 1,
\* each once and never the cell itself; corner cells get 3 neighbours, other
\* edge cells 5, interior cells 8; the relation is symmetric.
C19_MooreNeighbors ==
    pc = "neighbors" => (ClippedMoore /\ Len(neighbors) = MooreCount(cell))

\* C19 (amended): as above, with the counts 3, 5 and 8 claimed only for grids
\* of at least two rows and two columns.
C19_MooreNeighborsFrom2x2 ==
    pc = "neighbors" =>
        /\ ClippedMoore
        /\ (height >= 2 /\ width >= 2) => Len(neighbors) = MooreCount(cell)

C19_Witness ==
    /\ pc = "neighbors"
    /\ height = 3 /\ width = 3
    /\ cell = <<1, 1>>
    /\ Len(neighbors) = 8

\* ------------------------------------------------------------------------
\* The two brute-force solvers on the same puzzle
\* ------------------------------------------------------------------------
InitBrute ==
    /\ LoadMap(MaxCells, MaxNumbers, 0..MaxValue)
    /\ NewConverter
    /\ pc = "loaded"
    /\ outputs = <<>>
    /\ A = {}
    /\ satisfied = FALSE
    /\ NothingSolved

NextBrute ==
    \/ ConvertToCnf
    \/ ConvertRaises
    \/ ToDimacs
    \/ BruteForceSolve
    \/ ClassicalBruteForceSolve

SpecBrute == InitBrute /\ [][NextBrute]_vars

\* the brute-force solve returned the grid of the least satisfying mask
ReturnedFirstMask ==
    \E k \in SatisfyingMasks :
        /\ BfResult.solution = GridOfMask(k)
        /\ \A j \in SatisfyingMasks : k <= j

\* the trap masks whose grid, after the gem inference, the Validator accepts
ValidTrapMasks ==
    {trap_mask \in 0..(2 ^ Len(empty_cells(puzzle, height, width)) - 1) :
        is_valid_solution(puzzle, height, width,
                          bf_candidate(puzzle, height, width, trap_mask))}

\* the classical brute-force solve returned the grid of the least valid mask
ClassicalReturnedFirstMask ==
    \E k \in ValidTrapMasks :
        /\ classical_bf.solution = bf_candidate(puzzle, height, width, k)
        /\ \A j \in ValidTrapMasks : k <= j

NextFrame ==
    \/ Next
    \/ ClassicalBacktrackingSolve
    \/ ClassicalBruteForceSolve
    \/ GenerateCnf
    \/ GenerateCnfRaises
    \/ SatSolve

SpecFrame == Init /\ [][NextFrame]_vars

\* C16: the puzzle grid passed in is never mutated: after convert_to_cnf and
\* after solve of any strategy (brute-force, either backtracking variant,
\* SAT), found or not, every cell of it equals its value before the call.
C16_PuzzleNeverMutated == [][puzzle' = puzzle]_vars

\* the encoder and two solvers have run on the puzzle, and both solvers
\* returned a grid that differs from it
C16_Witness ==
    /\ pc = "bt_done"
    /\ BfResult.success /\ BfResult.solution # puzzle
    /\ BtResult.success /\ BtResult.solution # puzzle

\* C30: for every rectangular height x width grid, height # width included,
\* convert_to_cnf visits every cell without reading out of bounds and numbers
\* the variables row*width + col + 1 as the solvers do: it does not leave by
\* IndexError, and the visit of every Number cell has left the unit clause
\* on that cell's variable.
C30_VisitsEveryCell ==
    /\ pc # "raised"
    /\ Converted =>
          \A p \in NumberCells(puzzle, height, width) : <<-CellVar(p)>> \in Range(clauses)


\* ------------------------------------------------------------------------
\* The caps of the two brute-force solvers
\* ------------------------------------------------------------------------
\* a column of LongColumn cells, a Number cell MaxValue on top of unknown
\* cells: no trap mask gives its one neighbour MaxValue traps
LongColumnPuzzle == Grid(LongColumn, 1, (<<0, 0>> :> MaxValue))

InitCap ==
    /\ \/ LoadMap(MaxCapCells, MaxNumbers, 0..MaxValue)
       \/ /\ height = LongColumn
          /\ width = 1
          /\ puzzle = LongColumnPuzzle
    /\ NewConverter
    /\ pc = "loaded"
    /\ outputs = <<>>
    /\ A = {}
    /\ satisfied = FALSE
    /\ NothingSolved

SpecCap == InitCap /\ [][NextBrute]_vars

\* C21: neither brute-force solve evaluates more candidate masks than its
\* cap: the CNF-based solve calls check_solution on at most
\* MAX_COMBINATION_COUNT masks, the classical solve calls is_valid_solution
\* on at most MAX_COMBINATIONS trap masks
C21_MasksWithinCap ==
    /\ pc = "bf_done" => bf_evaluated <= MAX_COMBINATION_COUNT
    /\ pc = "classical_bf_done" => classical_bf.evaluated <= MAX_COMBINATIONS

\* the CNF-based half of C21 alone
CnfMasksWithinCap == pc = "bf_done" => bf_evaluated <= MAX_COMBINATION_COUNT

\* ------------------------------------------------------------------------
\* The two backtracking searches
\* ------------------------------------------------------------------------
NextBacktrack ==
    \/ ConvertToCnf
    \/ ConvertRaises
    \/ ToDimacs
    \/ BruteForceSolve
    \/ BacktrackingSolve
    \/ ClassicalBacktrackingSolve

SpecBacktrack == Init /\ [][NextBacktrack]_vars

\* in the log of a search, every try of the Trap value for a cell comes right
\* after a try of a non-trap value for that cell, with no other try of the
\* cell in between
GemBeforeTrap(tried) ==
    \A k \in 1..Len(tried) :
        tried[k][3] = TRAP_CELL =>
            \E g \in 1..(k - 1) :
                /\ tried[g][1] = tried[k][1]
                /\ tried[g][2] = tried[k][2]
                /\ tried[g][3] # TRAP_CELL
                /\ \A x \in (g + 1)..(k - 1) :
                      tried[x][1] # tried[k][1] \/ tried[x][2] # tried[k][2]

\* C22: at every cell a backtracking search visits, the Gem (non-trap) value
\* is tried before the Trap value, and the Trap value only after the Gem
\* branch of that cell has failed; for the CNF-based and the classical search
C22_GemBeforeTrap ==
    /\ pc = "bt_done" => GemBeforeTrap(bt_tried)
    /\ pc = "classical_done" => GemBeforeTrap(classical.tried)

\* the CNF-based half of C22 alone
CnfGemBeforeTrap == pc = "bt_done" => GemBeforeTrap(bt_tried)

\* ------------------------------------------------------------------------
\* The clauses of one Number cell
\* ------------------------------------------------------------------------
\* the subsets of S with k elements
Subsets(S, k) == {T \in SUBSET S : Cardinality(T) = k}

\* the variables of a set of cells, and the same negated
VarsOf(S) == {CellVar(q) : q \in S}
NegatedVarsOf(S) == {-CellVar(q) : q \in S}

\* the clauses the visit of Number cell p adds beside the unit clause on its
\* own variable, in the order of the add() calls
OverNeighbors(p) == SelectSeq(Contribution(p), LAMBDA c : c # <<-CellVar(p)>>)

\* what a Number(n) cell p with m unknown neighbours is to contribute
ExactlyClaimed(p) ==
    LET n == int(puzzle[p[1]][p[2]])
        N == UnknownNeighbors(p)
        m == Cardinality(N)
        added == OverNeighbors(p)
    IN /\ (m > n /\ n > 0) =>
             /\ {Range(added[k]) : k \in 1..Len(added)} =
                   {VarsOf(N)}
                      \cup {NegatedVarsOf(T) : T \in Subsets(N, n + 1)}
                      \cup {VarsOf(T) : T \in Subsets(N, m - n + 1)}
             /\ Len(added) = 1 + Cardinality(Subsets(N, n + 1))
                                + Cardinality(Subsets(N, m - n + 1))
       /\ (m = n /\ n > 0) =>
             /\ {Range(added[k]) : k \in 1..Len(added)} = {{CellVar(q)} : q \in N}
             /\ Len(added) = m

\* C23: a Number(n) cell with m unknown neighbours, m > n > 0, contributes
\* over those neighbours exactly the disjunction of the m variables, one
\* all-negative clause per (n+1)-subset and one all-positive clause per
\* (m-n+1)-subset, C(m,n+1) + C(m,m-n+1) cardinality clauses before
\* de-duplication; with m = n > 0 exactly the unit clause v of each neighbour
C23_CardinalityClauses ==
    Converted => \A p \in NumberCells(puzzle, height, width) : ExactlyClaimed(p)

\* what remains true: the same on the grids whose rows the loops all visit
C23_CardinalityClausesOnSquare ==
    (Converted /\ height = width) =>
        \A p \in NumberCells(puzzle, height, width) : ExactlyClaimed(p)

\* a converted square grid with a Number cell of either case
C23_SquareCases ==
    /\ pc = "converted" /\ height = width
    /\ \E p, q \in NumberCells(puzzle, height, width) :
          /\ Cardinality(UnknownNeighbors(p)) > int(puzzle[p[1]][p[2]])
          /\ int(puzzle[p[1]][p[2]]) > 1
          /\ Cardinality(UnknownNeighbors(q)) = int(puzzle[q[1]][q[2]])
          /\ int(puzzle[q[1]][q[2]]) > 0

\* ------------------------------------------------------------------------
\* The feasibility check of the classical backtracking search
\* ------------------------------------------------------------------------
\* is_consistent(i, j, value) called by backtrack: on an unknown cell of the
\* puzzle, with one of the two values of its loop, the solver's solution_grid
\* holding any values in the unknown cells
IsConsistent ==
    /\ pc = "loaded"
    /\ \E solution_grid \in Candidates(puzzle, height, width) :
       \E p \in Cells(height, width) :
       \E value \in {TRAP_CELL, EMPTY_CELL} :
          /\ puzzle[p[1]][p[2]] = EMPTY_CELL
          /\ candidate' = solution_grid
          /\ consistency' =
                [cell |-> p, value |-> value,
                 consistent |-> classical_is_consistent(puzzle, height, width,
                                                        solution_grid, p[1], p[2], value)]
    /\ pc' = "checked"
    /\ UNCHANGED <<mapVars, encVars, cardVars, solveVars, classical, verdicts, inferred, utilVars, satVars, bruteVars>>

SpecConsistent == InitValidate /\ [][IsConsistent]_vars

\* the grid is_consistent looks at: the candidate value in place
WithValue == SetCell(candidate, consistency.cell[1], consistency.cell[2], consistency.value)

\* the Number cells next to the cell of the call
NumberNeighbors ==
    {q \in NumberCells(puzzle, height, width) : Adjacent(consistency.cell, q)}

\* the neighbours of q that hold v in WithValue
Holding(q, v) == {r \in Cells(height, width) : Adjacent(q, r) /\ WithValue[r[1]][r[2]] = v}

\* C24: the classical backtracking search commits a value to cell (i,j) only
\* if is_consistent accepts it, and then every Number(n) neighbour of (i,j)
\* has, with the candidate value in place, at most n Trap neighbours and at
\* least n - (its Trap neighbours) neighbours still unassigned (empty)
C24_NumberFeasibility ==
    (pc = "checked" /\ consistency.consistent) =>
        \A q \in NumberNeighbors :
            LET n == int(puzzle[q[1]][q[2]])
                traps == Cardinality(Holding(q, TRAP_CELL))
                unassigned == Cardinality(Holding(q, EMPTY_CELL))
            IN traps <= n /\ n - traps <= unassigned

\* an accepted Trap next to a Number cell that already has a Trap neighbour
C24_Witness ==
    /\ pc = "checked"
    /\ consistency.consistent
    /\ consistency.value = TRAP_CELL
    /\ \E q \in NumberNeighbors : Cardinality(Holding(q, TRAP_CELL)) >= 2

\* a rejected value: a Number neighbour would have too many Trap neighbours
C24_Rejected ==
    /\ pc = "checked"
    /\ ~consistency.consistent
    /\ \E q \in NumberNeighbors :
          Cardinality(Holding(q, TRAP_CELL)) > int(puzzle[q[1]][q[2]])

\* ------------------------------------------------------------------------
\* The gem inference of the classical backtracking search
\* ------------------------------------------------------------------------
\* infer_gems() called twice in a row, the solver's solution_grid holding any
\* values in the unknown cells (solve calls it on the puzzle itself first)
InferGems ==
    /\ pc = "loaded"
    /\ \E solution_grid \in Candidates(puzzle, height, width) :
          /\ candidate' = solution_grid
          /\ inferred' =
                [grid |-> infer_gems(height, width, solution_grid,
                                     empty_cells(puzzle, height, width)).grid,
                 again |-> infer_gems(height, width,
                                      infer_gems(height, width, solution_grid,
                                                 empty_cells(puzzle, height, width)).grid,
                                      empty_cells(puzzle, height, width)).grid]
    /\ pc' = "inferred"
    /\ UNCHANGED <<mapVars, encVars, cardVars, solveVars, classical, verdicts, consistency, utilVars, satVars, bruteVars>>

SpecInfer == InitValidate /\ [][InferGems]_vars

\* the neighbours of p that hold one of the values vs after infer_gems
InferredAround(p, vs) ==
    {q \in Cells(height, width) : Adjacent(p, q) /\ inferred.grid[q[1]][q[2]] \in vs}

\* infer_gems turned only empty cells into gems, and a second call changes
\* nothing
OnlyGemsAdded ==
    /\ \A p \in Cells(height, width) :
          inferred.grid[p[1]][p[2]] # candidate[p[1]][p[2]] =>
              /\ candidate[p[1]][p[2]] = EMPTY_CELL
              /\ inferred.grid[p[1]][p[2]] = GEM_CELL
    /\ inferred.again = inferred.grid

\* C25: when infer_gems returns, no unassigned cell is next to a Number or an
\* already-resolved (Trap or Gem) cell while having no Trap neighbour;
\* infer_gems only turns unassigned cells into Gem, and a second call changes
\* nothing
C25_PropagationFixedPoint ==
    pc = "inferred" =>
        /\ \A p \in Cells(height, width) :
              inferred.grid[p[1]][p[2]] = EMPTY_CELL =>
                  ~ /\ InferredAround(p, {TRAP_CELL, GEM_CELL} \cup Range(DigitTokens)) # {}
                    /\ InferredAround(p, {TRAP_CELL}) = {}
        /\ OnlyGemsAdded

\* what remains true: the same with the Number cells alone as the cells that
\* force a gem
C25_FixedPointOnNumbers ==
    pc = "inferred" =>
        /\ \A p \in Cells(height, width) :
              inferred.grid[p[1]][p[2]] = EMPTY_CELL =>
                  ~ /\ InferredAround(p, Range(DigitTokens)) # {}
                    /\ InferredAround(p, {TRAP_CELL}) = {}
        /\ OnlyGemsAdded

\* infer_gems called on the puzzle itself made a gem and left an empty cell
\* next to it
C25_GemNextToEmpty ==
    /\ pc = "inferred"
    /\ candidate = puzzle
    /\ \E p, q \in Cells(height, width) :
          /\ Adjacent(p, q)
          /\ inferred.grid[p[1]][p[2]] = GEM_CELL
          /\ inferred.grid[q[1]][q[2]] = EMPTY_CELL

\* ------------------------------------------------------------------------
\* The undo of the classical backtracking search
\* ------------------------------------------------------------------------
\* BacktrackingSolver(puzzle).backtrack(0): the search called on the solver
\* as constructed
Backtrack ==
    /\ pc = "loaded"
    /\ classical' = backtrack_from_init(puzzle, height, width)
    /\ puzzle' = written_back(puzzle, copy_rows(puzzle), classical'.working)
    /\ pc' = "backtracked"
    /\ UNCHANGED <<height, width, encVars, cardVars, solveVars, candidate, verdicts, consistency, inferred, utilVars, satVars, bruteVars>>

NextUndo == Backtrack \/ ClassicalBacktrackingSolve

SpecUndo == Init /\ [][NextUndo]_vars

\* C26: when a branch of the classical backtrack has failed, the solution
\* grid is again what it was before the value of that branch was written,
\* the cells infer_gems turned into gems after that write included
C26_UndoRestores ==
    pc \in {"backtracked", "classical_done"} =>
        \A k \in 1..Len(classical.undos) :
            classical.undos[k].after = classical.undos[k].before

\* a search in which a branch failed
C26_BranchFailed ==
    /\ pc \in {"backtracked", "classical_done"}
    /\ Len(classical.undos) > 0

\* solve() never undoes a branch: a branch that failed is met only by a call
\* of backtrack that the first infer_gems of solve did not precede
SolveNeverUndoes == pc = "classical_done" => classical.undos = <<>>

\* ------------------------------------------------------------------------
\* What the CNF-based backtracking solve finds
\* ------------------------------------------------------------------------
\* the loaded clauses that hold the variable of an unknown cell
UnknownCellClauses ==
    LET unknown == {CellVar(p) : p \in Cells(height, width) \ NumberCells(puzzle, height, width)}
    IN {k \in 1..Len(cnf.clauses) : \E i \in 1..Len(cnf.clauses[k]) : abs(cnf.clauses[k][i]) \in unknown}

\* the trap/gem assignments of the unknown cells, as masks of their traps,
\* that satisfy every one of those clauses
SatisfyingUnknownCellClauses ==
    LET ec == empty_cells(puzzle, height, width)
    IN {mask \in 0..(2 ^ Len(ec) - 1) :
            \E assignment \in {mask_assignment(ec, height, width, mask)} :
                \A k \in UnknownCellClauses :
                    \E i \in 1..Len(cnf.clauses[k]) :
                        assignment[abs(cnf.clauses[k][i])] = (cnf.clauses[k][i] > 0)}

\* found, and the returned grid is the grid of an assignment that satisfies
\* those clauses: Trap where it is true, Gem where it is false
BtFoundSatisfying ==
    /\ BtResult.success
    /\ \E mask \in SatisfyingUnknownCellClauses : BtResult.solution = GridOfMask(mask)

C27_NotFound ==
    /\ pc = "bt_done"
    /\ cnf.truthy
    /\ ~BtResult.success
    /\ SatisfyingUnknownCellClauses = {}

\* ------------------------------------------------------------------------
\* The grids the CNF solvers return, with and without a formula
\* ------------------------------------------------------------------------
\* BruteForceSolver(puzzle).solve(): the solver constructed without a DIMACS
\* file, self.cnf left None
BruteForceSolveNoFile ==
    /\ pc = "loaded"
    /\ cnf' = [clauses |-> <<>>, truthy |-> FALSE]
    /\ results' = Append(results, [solver |-> "bf",
                                   solution |-> bf_solve(puzzle, height, width, cnf').solution,
                                   success |-> bf_solve(puzzle, height, width, cnf').success])
    /\ bf_stop' = bf_solve(puzzle, height, width, cnf').stop
    /\ bf_evaluated' = bf_solve(puzzle, height, width, cnf').evaluated
    /\ pc' = "bf_done"
    /\ UNCHANGED <<mapVars, encVars, cardVars, bt_tried, all_match, valVars, utilVars, satVars, bruteVars>>

NextDecode ==
    \/ ConvertToCnf
    \/ ConvertRaises
    \/ ToDimacs
    \/ BruteForceSolve
    \/ BruteForceSolveNoFile
    \/ BacktrackingSolve

SpecDecode == Init /\ [][NextDecode]_vars

\* a grid in which every unknown cell of the puzzle is a Trap or a Gem and
\* every Number cell holds its puzzle value
FullDecode(solution) ==
    \A p \in Cells(height, width) :
        IF puzzle[p[1]][p[2]] = EMPTY_CELL
        THEN solution[p[1]][p[2]] \in {TRAP_CELL, GEM_CELL}
        ELSE solution[p[1]][p[2]] = puzzle[p[1]][p[2]]

\* C29: when a CNF-based solve (brute-force or backtracking) reports found,
\* the returned grid is a full decode: every unknown cell of the puzzle is
\* Trap or Gem and every Number cell equals its puzzle value; when no formula
\* was loaded, solve performs no search and reports not-found
C29_FullDecode ==
    /\ \A k \in 1..Len(results) : results[k].success => FullDecode(results[k].solution)
    /\ (Len(results) > 0 /\ ~cnf.truthy) =>
          /\ \A k \in 1..Len(results) : ~results[k].success
          /\ bf_stop = "no_cnf"
          /\ bf_evaluated = 0
          /\ bt_tried = <<>>

\* both solvers found a grid, with a Number, a Trap and a Gem in it
C29_Witness ==
    /\ pc = "bt_done"
    /\ \A k \in 1..2 :
          /\ results[k].success
          /\ \E p, q \in Cells(height, width) :
                /\ results[k].solution[p[1]][p[2]] = TRAP_CELL
                /\ results[k].solution[q[1]][q[2]] = GEM_CELL
    /\ NumberCells(puzzle, height, width) # {}

\* both solvers have returned without a formula, on a puzzle with Number cells
C29_NoFormula ==
    /\ pc = "bt_done"
    /\ ~cnf.truthy
    /\ NumberCells(puzzle, height, width) # {}
    /\ cnf_file = <<>>

\* ------------------------------------------------------------------------
\* The solvers statement by statement: solve() of the four solvers as the
\* interpreter runs it, one step from a call, a loop iteration or a return to
\* the next, on an explicit call stack
\* ------------------------------------------------------------------------
\* the frames the interpreter lets a call stack hold before a call raises
\* RecursionError: sys.getrecursionlimit(), 1000 in CPython, which the program
\* never changes. Here it is scaled down with the puzzles: the searches of
\* every puzzle of at most MaxStepCells cells stay within it. The stack of the
\* model begins at solve(); the frames of its callers and of the helpers a
\* step runs through only bring the limit closer
RecursionLimit == 6

\* the puzzles whose solvers are run step by step have at most this many cells
MaxStepCells == 4

\* one column: a Number 0 above unknown cells, more of them than the stack
\* holds frames
TallColumn == RecursionLimit + 3
TallColumnPuzzle == Grid(TallColumn, 1, (<<0, 0>> :> 0))

\* the values backtrack tries, in the order of its loop
BacktrackValues == <<TRAP_CELL, EMPTY_CELL>>

\* what a solver holds while its solve() runs: its solution grid, the
\* assignment and the unassigned cells of the backtracking solvers, the mask
\* and the count of the brute-force loops, the flag of the inference loop,
\* and in ret what the last call returned
NewSolver(kind, grid) ==
    [kind |-> kind, grid |-> grid, assignment |-> None, unassigned |-> <<>>,
     mask |-> 0, count |-> 0, updated |-> FALSE, ret |-> FALSE]

\* a frame: the function, its argument index, its locals (the cell and the
\* position in the loop over the values), and where it stands
Frame(fn, index, at) == [fn |-> fn, index |-> index, cell |-> <<0, 0>>, value |-> 1, at |-> at]

Top == stack[Len(stack)]
Callers == SubSeq(stack, 1, Len(stack) - 1)
WithTop(frame) == [stack EXCEPT ![Len(stack)] = frame]

\* a call from the frames below: the new frame is pushed, or, the stack being
\* full, RecursionError is raised; no frame of the solvers catches it
Call(below, frame) ==
    IF Len(below) >= RecursionLimit
      THEN /\ stack' = <<>>
           /\ pc' = "recursion_error"
      ELSE /\ stack' = Append(below, frame)
           /\ pc' = "running"

\* solve() returns (solution, found)
Return(solution, success) ==
    /\ returned' = [solution |-> solution, success |-> success]
    /\ stack' = <<>>
    /\ pc' = "returned"

Stepping(kind, fn) == pc = "running" /\ solver.kind = kind /\ Top.fn = fn

\* classical BacktrackingSolver.solve(): the copy of the puzzle, and the call
\* of infer_gems
ClassicalBtSolveCall ==
    /\ pc = "loaded"
    /\ solver' = [NewSolver("classical_bt", puzzle) EXCEPT
                     !.unassigned = empty_cells(puzzle, height, width),
                     !.updated = TRUE]
    /\ Call(<<Frame("solve", 0, "after_infer")>>, Frame("infer_gems", 0, "while"))
    /\ UNCHANGED <<mapVars, encVars, cardVars, solveVars, valVars, utilVars, satVars,
                   classical_bf, returned>>

\* infer_gems: one pass of `while updated`, or its end
InferGemsPass ==
    /\ Stepping("classical_bt", "infer_gems")
    /\ IF solver.updated
         THEN /\ \E st \in {infer_gems_sweep(height, width,
                                             [grid |-> solver.grid,
                                              unassigned |-> solver.unassigned,
                                              updated |-> FALSE])} :
                    solver' = [solver EXCEPT !.grid = st.grid,
                                             !.unassigned = st.unassigned,
                                             !.updated = st.updated]
              /\ stack' = stack
         ELSE /\ solver' = solver
              /\ stack' = Callers
    /\ UNCHANGED <<mapVars, pc, encVars, cardVars, solveVars, valVars, utilVars, satVars,
                   classical_bf, returned>>

\* classical BacktrackingSolver.solve() after infer_gems: the call
\* backtrack(0), and the return of what it found
ClassicalBtSolveStep ==
    /\ Stepping("classical_bt", "solve")
    /\ IF Top.at = "after_infer"
         THEN /\ Call(WithTop([Top EXCEPT !.at = "after_search"]), Frame("backtrack", 0, "entry"))
              /\ returned' = returned
         ELSE Return(IF solver.ret THEN solver.grid ELSE None, solver.ret)
    /\ UNCHANGED <<mapVars, encVars, cardVars, solveVars, valVars, utilVars, satVars,
                   classical_bf, solver>>

\* backtrack(index), from where its frame stands to its next call or return
BacktrackStep ==
    /\ Stepping("classical_bt", "backtrack")
    /\ LET index == Top.index
           i == Top.cell[1]
           j == Top.cell[2]
       IN CASE Top.at = "entry" ->
                 IF index >= Len(solver.unassigned)
                   THEN /\ stack' = Callers
                        /\ solver' = [solver EXCEPT !.ret = TRUE]
                        /\ pc' = pc
                 ELSE /\ stack' = WithTop([Top EXCEPT !.cell = solver.unassigned[index + 1],
                                                       !.value = 1, !.at = "loop"])
                      /\ UNCHANGED <<solver, pc>>
            [] Top.at = "loop" ->
                 IF Top.value > Len(BacktrackValues)
                   THEN /\ stack' = Callers
                        /\ solver' = [solver EXCEPT !.ret = FALSE]
                        /\ pc' = pc
                 ELSE IF classical_is_consistent(puzzle, height, width, solver.grid, i, j,
                                                 BacktrackValues[Top.value])
                   THEN /\ solver' = [solver EXCEPT
                                         !.grid = SetCell(solver.grid, i, j,
                                                          BacktrackValues[Top.value]),
                                         !.updated = TRUE]
                        /\ Call(WithTop([Top EXCEPT !.at = "after_infer"]),
                                Frame("infer_gems", 0, "while"))
                 ELSE /\ stack' = WithTop([Top EXCEPT !.value = Top.value + 1])
                      /\ UNCHANGED <<solver, pc>>
            [] Top.at = "after_infer" ->
                 /\ Call(WithTop([Top EXCEPT !.at = "after_call"]),
                         Frame("backtrack", index + 1, "entry"))
                 /\ solver' = solver
            [] Top.at = "after_call" ->
                 IF solver.ret
                   THEN /\ stack' = Callers
                        /\ UNCHANGED <<solver, pc>>
                 ELSE /\ solver' = [solver EXCEPT
                                       !.grid = reset_cells(SetCell(solver.grid, i, j, EMPTY_CELL),
                                                            solver.unassigned, index + 1)]
                      /\ stack' = WithTop([Top EXCEPT !.value = Top.value + 1, !.at = "loop"])
                      /\ pc' = pc
    /\ UNCHANGED <<mapVars, encVars, cardVars, solveVars, valVars, utilVars, satVars,
                   classical_bf, returned>>

\* the values backtrack_search tries, in its order: what it writes to the
\* assignment and to the grid
SearchValues == <<[assigned |-> "False", cell |-> GEM_CELL],
                  [assigned |-> "True", cell |-> TRAP_CELL]>>

\* BacktrackingSolver(puzzle, dimacs_file=cnf_path).solve() of
\* backtracking_solvers up to its call backtrack_search(assignment, 0), or
\* its return when no formula counts as loaded
BtSolveCall ==
    /\ pc = "exported"
    /\ \E truthy \in CnfTruthiness(load_dimacs(cnf_file)) :
          /\ cnf' = [clauses |-> load_dimacs(cnf_file), truthy |-> truthy]
          /\ solver' = [NewSolver("bt", puzzle) EXCEPT
                           !.assignment = [v \in 1..(height * width) |-> "None"]]
          /\ IF truthy
               THEN /\ Call(<<Frame("solve", 0, "after_search")>>,
                            Frame("backtrack_search", 0, "entry"))
                    /\ returned' = returned
             ELSE Return(puzzle, FALSE)
    /\ UNCHANGED <<mapVars, encVars, cardVars, results, bf_stop, bf_evaluated, bt_tried,
                   all_match, valVars, utilVars, satVars, classical_bf>>

\* backtrack_search(assignment, index), from where its frame stands to its
\* next call or return
BacktrackSearchStep ==
    /\ Stepping("bt", "backtrack_search")
    /\ LET ec == empty_cells(puzzle, height, width)
           index == Top.index
           row == Top.cell[1]
           col == Top.cell[2]
           var == row * width + col + 1
       IN CASE Top.at = "entry" ->
                 IF index >= Len(ec)
                   THEN /\ stack' = Callers
                        /\ solver' = [solver EXCEPT !.ret = TRUE]
                        /\ pc' = pc
                 ELSE /\ stack' = WithTop([Top EXCEPT !.cell = ec[index + 1],
                                                       !.value = 1, !.at = "try"])
                      /\ UNCHANGED <<solver, pc>>
            [] Top.at = "try" ->
                 IF Top.value > Len(SearchValues)
                   THEN /\ stack' = Callers
                        /\ solver' = [solver EXCEPT
                                         !.assignment = [solver.assignment EXCEPT ![var] = "None"],
                                         !.grid = SetCell(solver.grid, row, col, EMPTY_CELL),
                                         !.ret = FALSE]
                        /\ pc' = pc
                 ELSE IF is_consistent(cnf.clauses, solver.assignment, var,
                                       SearchValues[Top.value].assigned)
                   THEN /\ solver' = [solver EXCEPT
                                         !.assignment = [solver.assignment EXCEPT
                                                            ![var] = SearchValues[Top.value].assigned],
                                         !.grid = SetCell(solver.grid, row, col,
                                                          SearchValues[Top.value].cell)]
                        /\ Call(WithTop([Top EXCEPT !.at = "after_call"]),
                                Frame("backtrack_search", index + 1, "entry"))
                 ELSE /\ stack' = WithTop([Top EXCEPT !.value = Top.value + 1])
                      /\ UNCHANGED <<solver, pc>>
            [] Top.at = "after_call" ->
                 IF solver.ret
                   THEN /\ stack' = Callers
                        /\ UNCHANGED <<solver, pc>>
                 ELSE /\ stack' = WithTop([Top EXCEPT !.value = Top.value + 1, !.at = "try"])
                      /\ UNCHANGED <<solver, pc>>
    /\ UNCHANGED <<mapVars, encVars, cardVars, solveVars, valVars, utilVars, satVars,
                   classical_bf, returned>>

\* solve() of backtracking_solvers after the search: the cells still empty
\* are made gems when it found an assignment
BtSolveStep ==
    /\ Stepping("bt", "solve")
    /\ IF solver.ret
         THEN Return([r \in DOMAIN puzzle |->
                         [c \in DOMAIN puzzle[r] |->
                             IF solver.grid[r][c] = EMPTY_CELL /\ puzzle[r][c] = EMPTY_CELL
                             THEN GEM_CELL ELSE solver.grid[r][c]]], TRUE)
       ELSE Return(solver.grid, FALSE)
    /\ UNCHANGED <<mapVars, encVars, cardVars, solveVars, valVars, utilVars, satVars,
                   classical_bf, solver>>

\* BruteForceSolver(puzzle, dimacs_file=cnf_path).solve() of bruteforce_solver
\* up to its loop, or its return when no formula counts as loaded
BfSolveCall ==
    /\ pc = "exported"
    /\ \E truthy \in CnfTruthiness(load_dimacs(cnf_file)) :
          /\ cnf' = [clauses |-> load_dimacs(cnf_file), truthy |-> truthy]
          /\ solver' = NewSolver("bf", puzzle)
          /\ IF truthy
               THEN /\ Call(<<>>, Frame("solve", 0, "for"))
                    /\ returned' = returned
             ELSE Return(None, FALSE)
    /\ UNCHANGED <<mapVars, encVars, cardVars, results, bf_stop, bf_evaluated, bt_tried,
                   all_match, valVars, utilVars, satVars, classical_bf>>

\* one iteration of `for mask in range(total_combinations)`: the return on a
\* satisfying mask, the break on the count, the end of the range
BfLoopStep ==
    /\ Stepping("bf", "solve")
    /\ LET ec == empty_cells(puzzle, height, width)
           total_combinations == 2 ^ Len(ec)
           assignment == mask_assignment(ec, height, width, solver.mask)
           combinations_count == solver.count + 1
       IN IF check_solution(cnf.clauses, assignment)
            THEN /\ Return(mask_grid(puzzle, ec, width, assignment), TRUE)
                 /\ solver' = solver
          ELSE IF \/ combinations_count >= MAX_COMBINATION_COUNT
                  \/ solver.mask + 1 >= total_combinations
            THEN /\ Return(puzzle, FALSE)
                 /\ solver' = [solver EXCEPT !.count = combinations_count]
          ELSE /\ solver' = [solver EXCEPT !.count = combinations_count,
                                           !.mask = solver.mask + 1]
               /\ UNCHANGED <<stack, pc, returned>>
    /\ UNCHANGED <<mapVars, encVars, cardVars, solveVars, valVars, utilVars, satVars,
                   classical_bf>>

\* BruteForceSolver(puzzle).solve() of classical_solvers up to its loop
ClassicalBfSolveCall ==
    /\ pc = "loaded"
    /\ solver' = NewSolver("classical_bf", puzzle)
    /\ Call(<<>>, Frame("solve", 0, "for"))
    /\ UNCHANGED <<mapVars, encVars, cardVars, solveVars, valVars, utilVars, satVars,
                   classical_bf, returned>>

\* `for trap_mask in range(2 ** num_empty_cells)`: the end of the range, the
\* break past max_combinations, or the unknown cells reset to what the puzzle
\* holds and the traps of the mask placed
ClassicalBfLoopStep ==
    /\ Stepping("classical_bf", "solve")
    /\ Top.at = "for"
    /\ LET ec == empty_cells(puzzle, height, width)
           num_empty_cells == Len(ec)
           max_combinations == IF exceeds(3, num_empty_cells, MAX_COMBINATIONS)
                               THEN MAX_COMBINATIONS
                               ELSE 3 ^ num_empty_cells
       IN IF solver.mask >= 2 ^ num_empty_cells \/ solver.mask > max_combinations
            THEN /\ Return(None, FALSE)
                 /\ solver' = solver
          ELSE /\ solver' = [solver EXCEPT !.grid = place_traps(puzzle, ec, solver.mask),
                                           !.updated = TRUE]
               /\ stack' = WithTop([Top EXCEPT !.at = "while"])
               /\ UNCHANGED <<pc, returned>>
    /\ UNCHANGED <<mapVars, encVars, cardVars, solveVars, valVars, utilVars, satVars,
                   classical_bf>>

\* the gem inference of that loop: one pass of `while updated`, or, at its
\* end, the return of a grid is_valid_solution accepts, or the next mask
ClassicalBfInferStep ==
    /\ Stepping("classical_bf", "solve")
    /\ Top.at = "while"
    /\ IF solver.updated
         THEN /\ \E st \in {infer_gems_sweep(height, width,
                                             [grid |-> solver.grid, unassigned |-> <<>>,
                                              updated |-> FALSE])} :
                    solver' = [solver EXCEPT !.grid = st.grid, !.updated = st.updated]
              /\ UNCHANGED <<stack, pc, returned>>
       ELSE IF is_valid_solution(puzzle, height, width, solver.grid)
         THEN /\ Return(solver.grid, TRUE)
              /\ solver' = solver
       ELSE /\ solver' = [solver EXCEPT !.mask = solver.mask + 1]
            /\ stack' = WithTop([Top EXCEPT !.at = "for"])
            /\ UNCHANGED <<pc, returned>>
    /\ UNCHANGED <<mapVars, encVars, cardVars, solveVars, valVars, utilVars, satVars,
                   classical_bf>>

\* the puzzles of at most MaxStepCells cells, and the tall column
InitTerminate ==
    /\ \/ LoadMap(MaxStepCells, MaxNumbers, 0..MaxValue)
       \/ /\ height = TallColumn
          /\ width = 1
          /\ puzzle = TallColumnPuzzle
    /\ NewConverter
    /\ pc = "loaded"
    /\ outputs = <<>>
    /\ A = {}
    /\ satisfied = FALSE
    /\ NothingSolved

\* the steps of a solve() that has been called
NextStep ==
    \/ BfLoopStep
    \/ BacktrackSearchStep
    \/ BtSolveStep
    \/ ClassicalBfLoopStep
    \/ ClassicalBfInferStep
    \/ InferGemsPass
    \/ ClassicalBtSolveStep
    \/ BacktrackStep

NextTerminate ==
    \/ ConvertToCnf
    \/ ConvertRaises
    \/ ToDimacs
    \/ BfSolveCall
    \/ BtSolveCall
    \/ ClassicalBfSolveCall
    \/ ClassicalBtSolveCall
    \/ NextStep

\* the solvers run in the one thread of the interpreter: a solve() that has
\* been called runs its next statement while it has one. Nothing obliges the
\* program to convert a puzzle or to call a solver
SpecTerminate == InitTerminate /\ [][NextTerminate]_vars /\ WF_vars(NextStep)

Running == pc = "running"
Returned == pc = "returned"

\* C28: every solve invocation terminates: once solve() of any of the four
\* solvers is running, it eventually returns found or not-found
C28_Terminates == Running ~> Returned

\* what remains true: solve() returns on every puzzle of at most MaxStepCells
\* cells
RunningOnSmallPuzzle == Running /\ height * width <= MaxStepCells
TerminatesOnSmallPuzzles == RunningOnSmallPuzzle ~> Returned

\* RecursionError is raised by the two recursive searches only
RecursionErrorInSearch ==
    pc = "recursion_error" => /\ solver.kind \in {"bt", "classical_bt"}
                              /\ height * width > MaxStepCells

\* run statement by statement, solve() returns what the solvers return
StepsAgree ==
    pc = "returned" /\ height * width <= MaxStepCells =>
        CASE solver.kind = "bf" ->
               LET r == bf_solve(puzzle, height, width, cnf)
               IN returned = [solution |-> r.solution, success |-> r.success]
          [] solver.kind = "bt" ->
               LET r == bt_solve(puzzle, height, width, cnf)
               IN returned = [solution |-> r.solution, success |-> r.success]
          [] solver.kind = "classical_bf" ->
               LET r == classical_bf_solve(puzzle, height, width)
               IN returned = [solution |-> r.solution, success |-> r.success]
          [] solver.kind = "classical_bt" ->
               LET r == classical_bt_solve(puzzle, height, width)
               IN returned = [solution |-> r.solution, success |-> r.success]

============================================================================
